---- MODULE Spec2Model ----
(***************************************************************************)
(* The streaming gateway of go_torrent_mpv: the HTTP handlers of           *)
(* internal/torrentserver over the torrent engine's session table, the     *)
(* piece cache and the saved descriptors, the identifier dispatch of       *)
(* internal/torrentclient.AddTorrent, the life of the gateway process      *)
(* (startup resume, graceful shutdown) and the player script that          *)
(* supervises it; the address resolver, the file and playlist projector,   *)
(* the listing and the range handling of a file GET as functions of their  *)
(* inputs.                                                                 *)
(***************************************************************************)
EXTENDS Integers, Sequences, FiniteSets, TLC

\* ------------------------------------------------------------------ bounds

\* Number of distinct torrents (fingerprints) the world holds.
MaxTorrents == 2

\* Number of requests the HTTP server runs concurrently.
MaxInFlight == 2

\* Number of pieces of every torrent.
NumPieces == 2

\* Length in characters of a hex fingerprint (infoHashPattern, {40}).
HashLen == 40

IH == 1..MaxTorrents

Slots == 1..MaxInFlight

\* ------------------------------------------------------------ identifiers

RECURSIVE Rep(_, _)
Rep(c, n) == IF n = 0 THEN "" ELSE c \o Rep(c, n - 1)

\* The hex digit that fills the fingerprint of torrent t.
FpChar(t) == SubSeq("abcdef123456789", t, t)

\* infohash.T.HexString(): the 40-character hex form of a fingerprint.
HexString(t) == Rep(FpChar(t), HashLen)

HexChars == {"0", "1", "2", "3", "4", "5", "6", "7", "8", "9",
             "a", "b", "c", "d", "e", "f", "A", "B", "C", "D", "E", "F"}

HasPrefix(s, p) == Len(s) >= Len(p) /\ SubSeq(s, 1, Len(p)) = p

HasSuffix(s, p) == Len(s) >= Len(p) /\ SubSeq(s, Len(s) - Len(p) + 1, Len(s)) = p

\* The four patterns of the const block, as regexp.MatchString decides them.
MatchHttp(id) == HasPrefix(id, "https") \/ HasPrefix(id, "http")

MatchTorrent(id) == HasSuffix(id, ".torrent")

MatchInfoHash(id) == Len(id) = HashLen /\ \A i \in 1..Len(id) : SubSeq(id, i, i) \in HexChars

MatchMagnet(id) == HasPrefix(id, "magnet:")

MagnetHead == "magnet:?xt=urn:btih:"

\* The identifier strings a client may post.
Identifiers ==
    UNION { { HexString(t),
              MagnetHead \o HexString(t),
              MagnetHead \o HexString(t) \o "&dn=a.torrent",
              "http://h/" \o FpChar(t) \o ".torrent",
              "https://h/" \o FpChar(t),
              "/d/" \o FpChar(t) \o ".torrent",
              HexString(t) \o ".torrent" } : t \in IH }
    \cup { "", "foo", "httpx", "magnet:", "xmagnet:?xt=urn:btih:" \o HexString(1),
           SubSeq(HexString(1), 1, HashLen - 1), HexString(1) \o "0",
           Rep("g", HashLen), "a.torrent.bak", "ftp://h/a" }

\* ------------------------------------------------------------------ world

\* What lies outside the gateway: the descriptor a URL serves, the descriptor
\* a local file holds, the fingerprint a magnet link or a hex string names.
\* 0 stands for "nothing there" (the fetch, the read or the parse fails).
Denoted(S) == IF S = {} THEN 0 ELSE CHOOSE t \in S : TRUE

Served(id) ==
    Denoted({ t \in IH : id \in { "http://h/" \o FpChar(t) \o ".torrent",
                                  "https://h/" \o FpChar(t) } })

LocalFile(id) == Denoted({ t \in IH : id = "/d/" \o FpChar(t) \o ".torrent" })

ParseMagnet(id) ==
    Denoted({ t \in IH : HasPrefix(id, MagnetHead \o HexString(t)) })

FromHexString(id) == Denoted({ t \in IH : HexString(t) = id })

\* Display name of a torrent (the name in its metadata): torrents 1 and 2
\* carry the same name, torrent 3 another one.
NameOf(t) == (t + 1) \div 2

Names == { NameOf(t) : t \in IH }

\* Keys of the pieces of a torrent in the piece cache.
PiecesOf(t) == { <<t, i>> : i \in 1..NumPieces }

AllPieces == UNION { PiecesOf(t) : t \in IH }

\* Display paths of the files of a torrent.
DisplayPaths(t) == { "v.mkv", "s/v.mkv" }

\* Paths a client may ask for.
Paths == { "v.mkv", "v" }

\* Query strings of a DELETE request, as (key, value) or nothing.
Queries == { <<>>, <<"DeleteFiles", "true">>, <<"DeleteFiles", "false">>,
             <<"deleteFiles", "true">>, <<"deleteFiles", "false">> }

\* url.Values.Get: the value of the key, "" when the key is absent.
QueryGet(q, key) == IF q # <<>> /\ q[1] = key THEN q[2] ELSE ""

\* ------------------------------------------------------------------ state

VARIABLES
    torrents,   \* the engine's session table: fingerprint -> "absent", "unresolved", "resolved"
    pieces,     \* keys present in the piece cache (torrents.db)
    saved,      \* <DownloadDir>/torrents/<name>.torrent: 0 absent, t the descriptor of t, -1 unreadable
    localIP,    \* the package variable localIP: "nil", "lan", "loopback"
    ipErr,      \* the package variable ipErr: TRUE when the last GetLocalIP failed
    resume,     \* config.ResumeTorrents
    req,        \* per connection: the handler's position, its locals and its response
    lastCall,   \* the last AddTorrent call: the identifier and the engine path it took
    gw,         \* the gateway process: "down", "resuming", "serving", "stopping"
    exitCode,   \* how the last gateway process ended: "none", "ok", "fatal"
    files,      \* InitClient's files: the entries os.ReadDir returned
    pending,    \* InitClient's resume goroutines that have not called wg.Done()
    before,     \* the sessions that were active when the last gateway process stopped
    stray,      \* <DownloadDir>/torrents holds a .torrent file that is no descriptor
    State,      \* the player script's State table
    mp,         \* the player: the script function called last, the commands it issued, the open
                \* target, closeClientOnNoTorrentFiles as the call read it, whether it called Client:close()
    spawned,    \* gateway subprocesses spawned since the last call of Client:close()
    detached,   \* DELETE requests sent detached that the gateway has not served yet
    host,       \* the host's network: the default route and the addresses of its interfaces
    cache,      \* localIP and ipErr as GetLocalIP returned them: an address and an error
    asked,      \* the number of calls of GetLocalIP
    meta,       \* t.Files() of a resolved torrent: the display paths in the order of the metainfo
    tie,        \* how this build's sort.Slice leaves elements that compare equal
    proj,       \* the results of the WrapTorrent calls on the torrent, in order
    client,     \* c.Torrents(): the names of the sessions in the order the engine returns them
    array,      \* the array MarshalTorrents has marshalled
    fetch,      \* a file GET: the file's length, the Range header, the response
    removed,    \* history: the fingerprints a DELETE without data deletion dropped, not POSTed since
    prior,      \* history: per connection, the active sessions when its POST arrived
    listener,   \* the goroutine of InitServer: where it is ("idle", "listening",
                \* "returned", "done") and what ListenAndServe returned
    serverErr,  \* the serverErr channel of the earlier run(): capacity, length, closed
    runPc       \* the earlier run(): the variant, where run and the listener goroutine are, ctx

\* The gateway's handlers and the engine.
gatewayVars == <<torrents, pieces, saved, localIP, ipErr, resume, req, lastCall>>

\* The gateway process.
processVars == <<gw, exitCode, files, pending, before, stray>>

\* The player script.
scriptVars == <<State, mp, spawned, detached>>

projectorVars == <<host, cache, asked, meta, tie, proj, client, array, fetch>>

\* What the checks remember of a run.
historyVars == <<removed, prior>>

\* The listener goroutine, and run() as it was with the serverErr channel.
listenVars == <<listener, serverErr, runPc>>

vars == <<gatewayVars, processVars, scriptVars, projectorVars, historyVars, listenVars>>

NoCall == [id |-> "", via |-> "", err |-> ""]

\* A connection on which no handler has run yet.
Idle ==
    [pc |-> "idle", op |-> "", t |-> 0, q |-> <<>>, path |-> "", todo |-> {},
     out |-> {}, got |-> {}, lost |-> {}, cancelled |-> FALSE, status |-> 0, err |-> ""]

\* A handler that has returned: the response the client sees.
Done(op, t, q, status, err) ==
    [Idle EXCEPT !.pc = "done", !.op = op, !.t = t, !.q = q, !.status = status, !.err = err]

Free(r) == req[r].pc \in {"idle", "done"}

\* The player before the script has been called.
NoCommand == [call |-> "", arg |-> "", cmds |-> <<>>, open |-> "", flag |-> FALSE, stop |-> FALSE]

\* A host whose network has not been looked at.
NoHost == [fail |-> "", route |-> 0, ifaces |-> <<>>]

\* No file GET has been made.
NoFetch == [size |-> 0, range |-> "", resp |-> <<>>]

\* The earlier run() has not been started.
NoRun == [variant |-> "", main |-> "", lis |-> "", ctx |-> FALSE, shut |-> FALSE]

Active == { t \in IH : torrents[t] # "absent" }

Init ==
    /\ torrents = [t \in IH |-> "absent"]
    /\ pieces = {}
    /\ saved = [n \in Names |-> 0]
    /\ localIP = "nil"
    /\ ipErr = FALSE
    /\ resume \in BOOLEAN
    /\ req = [r \in Slots |-> Idle]
    /\ lastCall = NoCall
    /\ gw = "serving"
    /\ exitCode = "none"
    /\ files = {}
    /\ pending = {}
    /\ before = {}
    /\ stray = FALSE
    /\ State = [client_running |-> FALSE, launched_by_us |-> FALSE, torrents |-> {}]
    /\ mp = NoCommand
    /\ spawned = 0
    /\ detached = {}
    /\ host = NoHost
    /\ cache = [ip |-> <<>>, err |-> ""]
    /\ asked = 0
    /\ meta = <<>>
    /\ tie = "stable"
    /\ proj = <<>>
    /\ client = <<>>
    /\ array = <<>>
    /\ fetch = NoFetch
    /\ removed = {}
    /\ prior = [r \in Slots |-> {}]
    /\ listener = [at |-> "idle", err |-> ""]
    /\ serverErr = [cap |-> 0, len |-> 0, closed |-> FALSE]
    /\ runPc = NoRun

\* ----------------------------------------------------------------- engine

\* The session table after the engine added a torrent: with metadata
\* (add-by-metainfo, add-from-file) the session is resolved at once, without
\* (add-by-fingerprint, add-by-magnet) a new session starts unresolved and an
\* existing one is returned as it is.
Added(ts, t, info) ==
    IF info THEN [ts EXCEPT ![t] = "resolved"]
    ELSE IF ts[t] = "absent" THEN [ts EXCEPT ![t] = "unresolved"]
    ELSE ts

\* The engine receives the metadata of a session from peers.
Resolve(t) ==
    /\ torrents[t] = "unresolved"
    /\ torrents' = [torrents EXCEPT ![t] = "resolved"]
    /\ UNCHANGED <<pieces, saved, localIP, ipErr, resume, req, lastCall>>

\* The engine downloads and stores one piece of a resolved session.
StorePiece(t, i) ==
    /\ torrents[t] = "resolved"
    /\ <<t, i>> \notin pieces
    /\ pieces' = pieces \cup {<<t, i>>}
    /\ UNCHANGED <<torrents, saved, localIP, ipErr, resume, req, lastCall>>

\* <-t.GotInfo() on the handle a handler holds: the live session of the table,
\* or a session that was dropped while the handler held it (resolved for
\* ever in got, never resolved in lost).
GotInfo(r, t) ==
    \/ t \in req[r].got
    \/ t \notin req[r].lost /\ torrents[t] = "resolved"

\* The handles of t held by the handlers other than r, once t.Drop() has
\* closed the session.
Orphaned(r, t) ==
    [s \in Slots |->
        IF s # r /\ ~Free(s) /\ t \in ({req[s].t} \cup req[s].todo)
              /\ t \notin (req[s].got \cup req[s].lost)
        THEN IF torrents[t] = "resolved"
             THEN [req[s] EXCEPT !.got = @ \cup {t}]
             ELSE [req[s] EXCEPT !.lost = @ \cup {t}]
        ELSE req[s]]

\* -------------------------------------------------------------- AddTorrent

\* The switch gone wrong: the magnet test comes before the file test.
AddTorrentMagnetFirst(id, env) ==
    IF MatchHttp(id) THEN
        IF ~env \/ Served(id) = 0
        THEN [via |-> "url", err |-> "error getting torrent from URL", t |-> 0, info |-> FALSE]
        ELSE [via |-> "url", err |-> "", t |-> Served(id), info |-> TRUE]
    ELSE IF MatchMagnet(id) THEN
        IF ParseMagnet(id) = 0
        THEN [via |-> "magnet", err |-> "magnet", t |-> 0, info |-> FALSE]
        ELSE [via |-> "magnet", err |-> "", t |-> ParseMagnet(id), info |-> FALSE]
    ELSE IF MatchTorrent(id) THEN
        IF ~env \/ LocalFile(id) = 0
        THEN [via |-> "file", err |-> "open", t |-> 0, info |-> FALSE]
        ELSE [via |-> "file", err |-> "", t |-> LocalFile(id), info |-> TRUE]
    ELSE IF MatchInfoHash(id) THEN
        [via |-> "hash", err |-> "", t |-> FromHexString(id), info |-> FALSE]
    ELSE [via |-> "none", err |-> "invalid torrent id", t |-> 0, info |-> FALSE]

\* The switch gone wrong: the magnet case is missing.
AddTorrentNoMagnet(id, env) ==
    IF MatchHttp(id) THEN
        IF ~env \/ Served(id) = 0
        THEN [via |-> "url", err |-> "error getting torrent from URL", t |-> 0, info |-> FALSE]
        ELSE [via |-> "url", err |-> "", t |-> Served(id), info |-> TRUE]
    ELSE IF MatchTorrent(id) THEN
        IF ~env \/ LocalFile(id) = 0
        THEN [via |-> "file", err |-> "open", t |-> 0, info |-> FALSE]
        ELSE [via |-> "file", err |-> "", t |-> LocalFile(id), info |-> TRUE]
    ELSE IF MatchInfoHash(id) THEN
        [via |-> "hash", err |-> "", t |-> FromHexString(id), info |-> FALSE]
    ELSE [via |-> "none", err |-> "invalid torrent id", t |-> 0, info |-> FALSE]

\* The switch gone wrong: the default case hands the string to the engine
\* as a fingerprint instead of failing.
AddTorrentNoDefault(id, env) ==
    IF MatchHttp(id) THEN
        IF ~env \/ Served(id) = 0
        THEN [via |-> "url", err |-> "error getting torrent from URL", t |-> 0, info |-> FALSE]
        ELSE [via |-> "url", err |-> "", t |-> Served(id), info |-> TRUE]
    ELSE IF MatchTorrent(id) THEN
        IF ~env \/ LocalFile(id) = 0
        THEN [via |-> "file", err |-> "open", t |-> 0, info |-> FALSE]
        ELSE [via |-> "file", err |-> "", t |-> LocalFile(id), info |-> TRUE]
    ELSE IF MatchMagnet(id) THEN
        IF ParseMagnet(id) = 0
        THEN [via |-> "magnet", err |-> "magnet", t |-> 0, info |-> FALSE]
        ELSE [via |-> "magnet", err |-> "", t |-> ParseMagnet(id), info |-> FALSE]
    ELSE [via |-> "hash", err |-> "", t |-> 1, info |-> FALSE]

\* AddTorrent's switch. env tells whether the outside world answers (the
\* HTTP fetch, the file read). The result names the branch taken, the error
\* ("" for none), the fingerprint and whether the add carries metadata.
AddTorrent(id, env) ==
    IF MatchHttp(id) THEN
        IF ~env \/ Served(id) = 0
        THEN [via |-> "url", err |-> "error getting torrent from URL", t |-> 0, info |-> FALSE]
        ELSE [via |-> "url", err |-> "", t |-> Served(id), info |-> TRUE]
    ELSE IF MatchTorrent(id) THEN
        IF ~env \/ LocalFile(id) = 0
        THEN [via |-> "file", err |-> "open", t |-> 0, info |-> FALSE]
        ELSE [via |-> "file", err |-> "", t |-> LocalFile(id), info |-> TRUE]
    ELSE IF MatchInfoHash(id) THEN
        [via |-> "hash", err |-> "", t |-> FromHexString(id), info |-> FALSE]
    ELSE IF MatchMagnet(id) THEN
        IF ParseMagnet(id) = 0
        THEN [via |-> "magnet", err |-> "magnet", t |-> 0, info |-> FALSE]
        ELSE [via |-> "magnet", err |-> "", t |-> ParseMagnet(id), info |-> FALSE]
    ELSE [via |-> "none", err |-> "invalid torrent id", t |-> 0, info |-> FALSE]

\* AddTorrent over the identifiers and the two answers of the outside world.
Dispatch == [id \in Identifiers |-> [env \in BOOLEAN |-> AddTorrent(id, env)]]

\* The answers of the outside world that make a difference to AddTorrent(id).
Worlds(id) == IF MatchHttp(id) \/ MatchTorrent(id) THEN BOOLEAN ELSE {TRUE}

WorldsOf == [id \in Identifiers |-> Worlds(id)]

\* A direct call of AddTorrent (InitClient's resume, a handler): the engine
\* adds the session, the call is recorded.
AddTorrentCall(id, env) ==
    LET res == Dispatch[id][env] IN
    /\ lastCall' = [id |-> id, via |-> res.via, err |-> res.err]
    /\ torrents' = IF res.err = "" THEN Added(torrents, res.t, res.info) ELSE torrents
    /\ UNCHANGED <<pieces, saved, localIP, ipErr, resume, req>>

\* ----------------------------------------------------------------- resolver

\* Most addresses of the first interface of a host.
MaxAddrs == 3

\* Most calls of GetLocalIP in one run.
MaxCalls == 2

\* net.IP values: 4 bytes, or 16 bytes; the nil IP is the empty tuple.
Loopback4 == <<127, 0, 0, 1>>

LinkLocal6 == <<254, 128, 0, 0, 0, 0, 0, 0, 0, 0, 0, 0, 0, 0, 0, 1>>

Loopback6 == <<0, 0, 0, 0, 0, 0, 0, 0, 0, 0, 0, 0, 0, 0, 0, 1>>

\* The addresses interfaces have.
AddressPool == { Loopback4, <<10, 0, 0, 5>>, <<192, 168, 1, 20>>, <<172, 16, 0, 9>>, LinkLocal6 }

SeqsUpTo(S, n) == UNION { [1..k -> S] : k \in 0..n }

\* The hosts: two interfaces (index 1 and 2) with their addresses in the
\* order Addrs() returns them, the interface index of the default route
\* (0: none, 3: an interface that is not listed), and which of
\* DefaultRoute(), net.Interfaces() and iface.Addrs() fails.
Hosts ==
    { [fail |-> "", route |-> i, ifaces |-> <<a, b>>] :
        i \in 0..3, a \in SeqsUpTo(AddressPool, MaxAddrs), b \in SeqsUpTo(AddressPool, 1) }
    \cup
    { [fail |-> f, route |-> 1, ifaces |-> <<a, b>>] :
        f \in {"route", "interfaces", "addrs"},
        a \in SeqsUpTo(AddressPool, MaxAddrs), b \in SeqsUpTo(AddressPool, 1) }

\* net.IP.To4: the 4-byte form of an IPv4 address, nil for any other.
To4(ip) ==
    IF Len(ip) = 4 THEN ip
    ELSE IF /\ Len(ip) = 16
            /\ \A i \in 1..10 : ip[i] = 0
            /\ ip[11] = 255 /\ ip[12] = 255
         THEN SubSeq(ip, 13, 16)
    ELSE <<>>

\* net.IP.IsLoopback.
IsLoopback(ip) == IF To4(ip) # <<>> THEN To4(ip)[1] = 127 ELSE ip = Loopback6

\* The loop of GetLocalIP over the addresses of the interface from address
\* i on, with _localIP = found: loopback and non-IPv4 addresses are skipped,
\* every IPv4 address is assigned to _localIP, a 192 address ends the loop.
RECURSIVE Scan(_, _, _)
Scan(addrs, i, found) ==
    IF i > Len(addrs) THEN found
    ELSE IF IsLoopback(addrs[i]) THEN Scan(addrs, i + 1, found)
    ELSE LET ip == To4(addrs[i]) IN
         IF ip = <<>> THEN Scan(addrs, i + 1, found)
         ELSE IF ip[1] = 192 THEN ip
         ELSE Scan(addrs, i + 1, ip)

\* GetLocalIP on host h: the address and the error it returns. An
\* interface index that matches no interface leaves iface the zero
\* Interface, which has no addresses.
GetLocalIPOn(h) ==
    IF h.fail \in {"route", "interfaces"} THEN [ip |-> <<>>, err |-> "error getting local ip"]
    ELSE IF h.route = 0 THEN [ip |-> Loopback4, err |-> ""]
    ELSE IF h.fail = "addrs" THEN [ip |-> <<>>, err |-> "error getting local ip"]
    ELSE LET addrs == IF h.route \in 1..Len(h.ifaces) THEN h.ifaces[h.route] ELSE <<>> IN
         [ip |-> Scan(addrs, 1, <<>>), err |-> ""]

\* A result of GetLocalIP as the handlers see it: no address, the loopback
\* address or another one, and whether there is an error.
Seen(res) ==
    [ip |-> IF res.ip = <<>> THEN "nil" ELSE IF IsLoopback(res.ip) THEN "loopback" ELSE "lan",
     err |-> res.err # ""]

\* The host's network is h when the gateway first looks at it.
HostIs(h) ==
    /\ host = NoHost
    /\ host' = h
    /\ UNCHANGED <<gatewayVars, processVars, scriptVars>>
    /\ UNCHANGED <<cache, asked, meta, tie, proj, client, array, fetch>>

HostNetwork == \E h \in Hosts : HostIs(h)

\* The head of WrapFiles: GetLocalIP is called when localIP is no IPv4
\* address or the last call failed, and its result is kept.
ResolveLocalIP ==
    /\ host # NoHost
    /\ asked < MaxCalls
    /\ To4(cache.ip) = <<>> \/ cache.err # ""
    /\ cache' = GetLocalIPOn(host)
    /\ asked' = asked + 1
    /\ UNCHANGED <<gatewayVars, processVars, scriptVars>>
    /\ UNCHANGED <<host, meta, tie, proj, client, array, fetch>>

\* ---------------------------------------------------------------- projector

\* What GetLocalIP may return, by the host's network state: an error, an
\* address of the default route's interface, 127.0.0.1 when there is no
\* default route, or no address and no error.
GetLocalIP == { Seen(GetLocalIPOn(h)) : h \in Hosts }

\* WrapFiles' use of the cached address: resolved again when unset or when
\* the last resolution failed. fail is the error WrapFiles returns.
WrapFiles ==
    IF localIP = "nil" \/ ipErr
    THEN { [ip |-> o.ip, ipErr |-> o.err, fail |-> o.err] : o \in GetLocalIP }
    ELSE { [ip |-> localIP, ipErr |-> ipErr, fail |-> FALSE] }

\* ------------------------------------------------------------ POST /torrents

\* ReadAll, AddTorrent: 400 on a body that cannot be read or an identifier
\* that cannot be added, else the handler holds the session and waits.
HandlePostTorrents(r, id, bodyOk, env) ==
    LET res == Dispatch[id][env] IN
    /\ Free(r)
    /\ IF ~bodyOk THEN
            /\ req' = [req EXCEPT ![r] = Done("post", 0, <<>>, 400, "Bad request")]
            /\ torrents' = torrents
       ELSE IF res.err # "" THEN
            /\ req' = [req EXCEPT ![r] = Done("post", 0, <<>>, 400, res.err)]
            /\ torrents' = torrents
       ELSE
            /\ torrents' = Added(torrents, res.t, res.info)
            /\ req' = [req EXCEPT ![r] = [Idle EXCEPT !.pc = "post_wait", !.op = "post", !.t = res.t]]
    /\ UNCHANGED <<pieces, saved, localIP, ipErr, resume, lastCall>>

\* <-t.GotInfo(), WrapFiles, BuildPlaylist, the response; 500 when the
\* address cannot be resolved. The handler returns here unless resume is on.
PostGotInfo(r) ==
    /\ req[r].pc = "post_wait"
    /\ GotInfo(r, req[r].t)
    /\ \E w \in WrapFiles :
        /\ localIP' = w.ip
        /\ ipErr' = w.ipErr
        /\ req' = [req EXCEPT ![r] =
                IF w.fail THEN Done("post", @.t, <<>>, 500, "Error building playlist")
                ELSE IF ~resume THEN Done("post", @.t, <<>>, 200, "")
                ELSE [@ EXCEPT !.pc = "post_save", !.status = 200]]
    /\ UNCHANGED <<torrents, pieces, saved, resume, lastCall>>

\* The descriptor file after SaveTorrentFile, by how far it got: MkdirAll or
\* Create fails (the file is as before), Write fails (the file is created and
\* truncated, its content is not a descriptor), or all succeed.
SaveTorrentFile(t, how) ==
    CASE how = "mkdir" -> saved
      [] how = "create" -> saved
      [] how = "write" -> [saved EXCEPT ![NameOf(t)] = -1]
      [] how = "ok" -> [saved EXCEPT ![NameOf(t)] = t]

SaveOutcomes == {"mkdir", "create", "write", "ok"}

\* The save gone wrong: a failure is answered with 500 and the session is
\* dropped.
PostSaveFatal(r) ==
    /\ req[r].pc = "post_save"
    /\ \E how \in SaveOutcomes :
        /\ saved' = SaveTorrentFile(req[r].t, how)
        /\ IF how = "ok"
           THEN /\ req' = [req EXCEPT ![r] = Done("post", @.t, <<>>, @.status, "")]
                /\ torrents' = torrents
           ELSE /\ req' = [req EXCEPT ![r] = Done("post", @.t, <<>>, 500, "error saving")]
                /\ torrents' = [torrents EXCEPT ![req[r].t] = "absent"]
    /\ UNCHANGED <<pieces, localIP, ipErr, resume, lastCall>>

\* SaveTorrentFile after the response: an error is logged only.
PostSave(r) ==
    /\ req[r].pc = "post_save"
    /\ \E how \in SaveOutcomes : saved' = SaveTorrentFile(req[r].t, how)
    /\ req' = [req EXCEPT ![r] = Done("post", @.t, <<>>, @.status, "")]
    /\ UNCHANGED <<torrents, pieces, localIP, ipErr, resume, lastCall>>

\* ------------------------------------------------- GET /torrents/{infohash}

HandleGetInfoHash(r, t) ==
    /\ Free(r)
    /\ req' = [req EXCEPT ![r] =
            IF torrents[t] = "absent" THEN Done("get", t, <<>>, 404, "Torrent not found")
            ELSE [Idle EXCEPT !.pc = "get_wait", !.op = "get", !.t = t]]
    /\ UNCHANGED <<torrents, pieces, saved, localIP, ipErr, resume, lastCall>>

GetGotInfo(r) ==
    /\ req[r].pc = "get_wait"
    /\ GotInfo(r, req[r].t)
    /\ \E w \in WrapFiles :
        /\ localIP' = w.ip
        /\ ipErr' = w.ipErr
        /\ req' = [req EXCEPT ![r] =
                IF w.fail THEN Done("get", @.t, <<>>, 500, "Error building playlist")
                ELSE Done("get", @.t, <<>>, 200, "")]
    /\ UNCHANGED <<torrents, pieces, saved, resume, lastCall>>

\* ---------------------------------------- GET /torrents/{infohash}/{query...}

HandleGetInfoHashFile(r, t, path) ==
    /\ Free(r)
    /\ req' = [req EXCEPT ![r] =
            IF torrents[t] = "absent" THEN Done("file", t, <<>>, 404, "Torrent not found")
            ELSE [Idle EXCEPT !.pc = "file_wait", !.op = "file", !.t = t, !.path = path]]
    /\ UNCHANGED <<torrents, pieces, saved, localIP, ipErr, resume, lastCall>>

\* The lookup gone wrong: a file whose display path starts with the query
\* is served.
FileGotInfoByPrefix(r) ==
    /\ req[r].pc = "file_wait"
    /\ GotInfo(r, req[r].t)
    /\ req' = [req EXCEPT ![r] =
            IF \E f \in DisplayPaths(@.t) : HasPrefix(f, @.path)
            THEN [@ EXCEPT !.pc = "file_serve", !.status = 200]
            ELSE Done("file", @.t, <<>>, 404, "File not found")]
    /\ UNCHANGED <<torrents, pieces, saved, localIP, ipErr, resume, lastCall>>

\* <-t.GotInfo(), then a reader is opened on the file whose display path
\* equals the query and http.ServeContent starts to stream it; 404 when there
\* is none.
FileGotInfo(r) ==
    /\ req[r].pc = "file_wait"
    /\ GotInfo(r, req[r].t)
    /\ req' = [req EXCEPT ![r] =
            IF @.path \in DisplayPaths(@.t)
            THEN [@ EXCEPT !.pc = "file_serve", !.status = 200]
            ELSE Done("file", @.t, <<>>, 404, "File not found")]
    /\ UNCHANGED <<torrents, pieces, saved, localIP, ipErr, resume, lastCall>>

\* http.ServeContent returns (the client has read what it asked for, or has
\* gone away) and the deferred reader.Close() runs.
ServeContent(r) ==
    /\ req[r].pc = "file_serve"
    /\ req' = [req EXCEPT ![r] = Done("file", @.t, <<>>, @.status, "")]
    /\ UNCHANGED <<torrents, pieces, saved, localIP, ipErr, resume, lastCall>>

\* ------------------------------------------------------------ GET /torrents

\* MarshalTorrents: the sessions of c.Torrents() are wrapped one after the
\* other, in the order the engine lists them.
HandleGetTorrents(r) ==
    /\ Free(r)
    /\ IF Active = {}
       THEN req' = [req EXCEPT ![r] = Done("list", 0, <<>>, 200, "")]
       ELSE \E t \in Active :
                req' = [req EXCEPT ![r] =
                    [Idle EXCEPT !.pc = "list_wait", !.op = "list", !.t = t,
                                 !.todo = Active \ {t}]]
    /\ UNCHANGED <<torrents, pieces, saved, localIP, ipErr, resume, lastCall>>

\* WrapTorrent of the current session: <-t.GotInfo(), WrapFiles; an error
\* ends the request with 500, else the next session is taken, and after the
\* last one the array is written.
ListGotInfo(r) ==
    /\ req[r].pc = "list_wait"
    /\ GotInfo(r, req[r].t)
    /\ \E w \in WrapFiles :
        /\ localIP' = w.ip
        /\ ipErr' = w.ipErr
        /\ IF w.fail THEN
                req' = [req EXCEPT ![r] = Done("list", 0, <<>>, 500, "Internal server error")]
           ELSE IF req[r].todo = {} THEN
                req' = [req EXCEPT ![r] =
                    [Done("list", 0, <<>>, 200, "") EXCEPT !.out = req[r].out \cup {req[r].t}]]
           ELSE \E n \in req[r].todo :
                req' = [req EXCEPT ![r] =
                    [@ EXCEPT !.t = n, !.todo = @ \ {n}, !.out = @ \cup {req[r].t}]]
    /\ UNCHANGED <<torrents, pieces, saved, resume, lastCall>>

\* ---------------------------------------------- DELETE /torrents/{infohash}

\* The flag test gone wrong: everything but an explicit false deletes.
DeleteFilesUnlessFalse(q) == QueryGet(q, "DeleteFiles") # "false"

\* The data-deletion flag as the handler reads it.
DeleteFilesRequested(q) == QueryGet(q, "DeleteFiles") = "true"

\* c.Torrent(ih): 404 when unknown. Else 204 is written, and the handler goes
\* on to the purge only with the flag set and the metadata known (t.Info()).
HandleDeleteInfoHash(r, t, q) ==
    /\ Free(r)
    /\ req' = [req EXCEPT ![r] =
            IF torrents[t] = "absent" THEN Done("delete", t, q, 404, "Torrent not found")
            ELSE [Idle EXCEPT !.op = "delete", !.t = t, !.q = q, !.status = 204,
                              !.pc = IF DeleteFilesRequested(q) /\ torrents[t] = "resolved"
                                     THEN "del_purge" ELSE "del_drop"]]
    /\ UNCHANGED <<torrents, pieces, saved, localIP, ipErr, resume, lastCall>>

\* The loop of the transaction from piece i on, with ps the store inside
\* the transaction: tx.Delete of a piece that is not there gives ErrNotFound
\* and the loop goes on; a hard failure at piece failAt (0: none) ends it.
\* The result is the store inside the transaction and whether the function
\* passed to Tx returned an error.
RECURSIVE PurgeLoop(_, _, _, _)
PurgeLoop(ps, t, i, failAt) ==
    IF i > NumPieces THEN [ps |-> ps, failed |-> FALSE]
    ELSE IF i = failAt THEN [ps |-> ps, failed |-> TRUE]
    ELSE PurgeLoop(ps \ {<<t, i>>}, t, i + 1, failAt)

\* The purge gone wrong: what the loop deleted before a hard failure stays
\* deleted.
PurgePiecesNoRollback(t, failAt) == PurgeLoop(pieces, t, 1, failAt).ps

\* The piece cache after sq.Tx over the pieces of t: committed when the loop
\* ran to its end, rolled back as a whole when it returned an error.
PurgePieces(t, failAt) ==
    LET tx == PurgeLoop(pieces, t, 1, failAt) IN
    IF tx.failed THEN pieces ELSE tx.ps

\* What the handler logs after the transaction.
PurgeLog(failAt) ==
    IF PurgeLoop({}, 0, 1, failAt).failed THEN "error deleting torrent data" ELSE ""

\* The purge gone wrong: a store that cannot be opened ends the request with
\* 500 and the session is not dropped.
DeletePurgeFatal(r) ==
    /\ req[r].pc = "del_purge"
    /\ \E opened \in BOOLEAN, failAt \in 0..NumPieces :
        IF ~opened THEN
            /\ pieces' = pieces
            /\ req' = [req EXCEPT ![r] = Done("delete", @.t, @.q, 500, "error opening database")]
        ELSE
            /\ pieces' = PurgePieces(req[r].t, failAt)
            /\ req' = [req EXCEPT ![r].pc = "del_remove", ![r].err = PurgeLog(failAt)]
    /\ UNCHANGED <<torrents, saved, localIP, ipErr, resume, lastCall>>

\* squirrel.NewCache, then the transaction. When the store cannot be opened
\* the handler returns without touching the descriptor.
DeletePurge(r) ==
    /\ req[r].pc = "del_purge"
    /\ \E opened \in BOOLEAN, failAt \in 0..NumPieces :
        IF ~opened THEN
            /\ pieces' = pieces
            /\ req' = [req EXCEPT ![r].pc = "del_drop"]
        ELSE
            /\ pieces' = PurgePieces(req[r].t, failAt)
            /\ req' = [req EXCEPT ![r].pc = "del_remove", ![r].err = PurgeLog(failAt)]
    /\ UNCHANGED <<torrents, saved, localIP, ipErr, resume, lastCall>>

\* os.Remove of <name>.torrent: a missing file and a failure change nothing.
RemoveDescriptor(t, ok) ==
    IF ok THEN [saved EXCEPT ![NameOf(t)] = 0] ELSE saved

DeleteRemove(r) ==
    /\ req[r].pc = "del_remove"
    /\ \E ok \in BOOLEAN : saved' = RemoveDescriptor(req[r].t, ok)
    /\ req' = [req EXCEPT ![r].pc = "del_drop"]
    /\ UNCHANGED <<torrents, pieces, localIP, ipErr, resume, lastCall>>

\* The drop gone wrong: the handler returns and the session stays.
DeleteDropKeepsSession(r) ==
    /\ req[r].pc = "del_drop"
    /\ req' = [req EXCEPT ![r] = Done("delete", @.t, @.q, @.status, "")]
    /\ UNCHANGED <<torrents, pieces, saved, localIP, ipErr, resume, lastCall>>

\* The deferred t.Drop(): the session leaves the table (a handle whose session
\* another request has dropped already drops nothing), and the handler returns.
DeleteDrop(r) ==
    LET t == req[r].t
        live == t \notin (req[r].got \cup req[r].lost) IN
    /\ req[r].pc = "del_drop"
    /\ torrents' = IF live THEN [torrents EXCEPT ![t] = "absent"] ELSE torrents
    /\ req' = [(IF live THEN Orphaned(r, t) ELSE req) EXCEPT
                    ![r] = Done("delete", t, req[r].q, req[r].status, "")]
    /\ UNCHANGED <<pieces, saved, localIP, ipErr, resume, lastCall>>

\* ------------------------------------------------------------ the process

\* The entries of <DownloadDir>/torrents: one file per name that holds a
\* saved descriptor (or what a failed write left of it), and the stray file
\* (entry 0).
Entries == { n \in Names : saved[n] # 0 } \cup (IF stray THEN {0} ELSE {})

\* v.Name() of an entry.
EntryName(e) == (IF e = 0 THEN "x" ELSE SubSeq("nmkjihg", e, e)) \o ".torrent"

\* filepath.Join(DownloadDir, "torrents", v.Name()).
ResumePath(e) == "/d/torrents/" \o EntryName(e)

\* What the file of an entry holds: the descriptor of a torrent, or -1 for
\* bytes that are no descriptor.
Descriptor(e) == IF e = 0 THEN -1 ELSE saved[e]

\* run starts: InitStorage, then InitClient up to the launch of the resume
\* goroutines. Without resume, and when the directory cannot be read,
\* InitClient returns at once and the server starts.
InitClient(dirOk) ==
    /\ gw = "down"
    /\ exitCode' = "none"
    /\ files' = IF resume /\ dirOk THEN Entries ELSE {}
    /\ pending' = files'
    /\ gw' = IF resume /\ dirOk THEN "resuming" ELSE "serving"
    /\ UNCHANGED <<gatewayVars, before, stray, scriptVars>>

\* The resume goroutine of one entry: AddTorrent on the entry's path (the
\* switch takes the file branch, add-from-file reads the descriptor), the
\* error is logged, wg.Done().
ResumeTorrent(e) ==
    LET via == AddTorrent(ResumePath(e), TRUE).via
        ok == via = "file" /\ Descriptor(e) \in IH IN
    /\ gw = "resuming"
    /\ e \in pending
    /\ pending' = pending \ {e}
    /\ lastCall' = [id |-> ResumePath(e), via |-> via,
                    err |-> IF ok THEN "" ELSE "error resuming torrent"]
    /\ torrents' = IF ok THEN Added(torrents, Descriptor(e), TRUE) ELSE torrents
    /\ UNCHANGED <<pieces, saved, localIP, ipErr, resume, req>>
    /\ UNCHANGED <<gw, exitCode, files, before, stray, scriptVars>>

\* The join gone wrong: InitClient returns without wg.Wait().
InitServerNoWait ==
    /\ gw = "resuming"
    /\ gw' = "serving"
    /\ UNCHANGED <<gatewayVars, exitCode, files, pending, before, stray, scriptVars>>

\* wg.Wait() returns when every resume goroutine is done; InitClient
\* returns and InitServer starts to listen.
InitServer ==
    /\ gw = "resuming"
    /\ pending = {}
    /\ gw' = "serving"
    /\ UNCHANGED <<gatewayVars, exitCode, files, pending, before, stray, scriptVars>>

\* GET /exit: 202 is written, then cancel() ends run's wait on ctx.Done().
HandleExit(r) ==
    /\ gw = "serving"
    /\ Free(r)
    /\ req' = [req EXCEPT ![r] = Done("exit", 0, <<>>, 202, "")]
    /\ gw' = "stopping"
    /\ UNCHANGED <<torrents, pieces, saved, localIP, ipErr, resume, lastCall>>
    /\ UNCHANGED <<exitCode, files, pending, before, stray, scriptVars>>

\* os.Interrupt or SIGTERM: signal.NotifyContext cancels the context.
Interrupt ==
    /\ gw = "serving"
    /\ gw' = "stopping"
    /\ UNCHANGED <<gatewayVars, exitCode, files, pending, before, stray, scriptVars>>

\* The shutdown gone wrong: server.Shutdown under a context without
\* deadline returns only when no request is in flight.
GracefulShutdownNoDeadline ==
    /\ gw = "stopping"
    /\ \A r \in Slots : Free(r)
    /\ exitCode' = "ok"
    /\ gw' = "closing"
    /\ UNCHANGED <<gatewayVars, files, pending, before, stray, scriptVars>>

\* server.Shutdown under the shutdownTimeout: it returns nil when no request
\* is in flight, and the deadline's error when the window expires while
\* a request is still in flight (run returns it and main ends with
\* log.Fatal).
GracefulShutdown ==
    /\ gw = "stopping"
    /\ exitCode' = IF \A r \in Slots : Free(r) THEN "ok" ELSE "fatal"
    /\ gw' = "closing"
    /\ UNCHANGED <<gatewayVars, files, pending, before, stray, scriptVars>>

\* run returns: the deferred c.Close() and <-c.Closed() end every session
\* and every reader, the piece database is deleted if the configuration
\* says so, and the process ends: what it held in memory is gone, the
\* piece cache and the descriptor files stay.
RunReturn ==
    /\ gw = "closing"
    /\ before' = Active
    /\ torrents' = [t \in IH |-> "absent"]
    /\ req' = [r \in Slots |-> Idle]
    /\ localIP' = "nil"
    /\ ipErr' = FALSE
    /\ lastCall' = NoCall
    /\ \E deleteDatabase \in BOOLEAN : pieces' = IF deleteDatabase THEN {} ELSE pieces
    /\ files' = {}
    /\ pending' = {}
    /\ gw' = "down"
    /\ UNCHANGED <<saved, resume, exitCode, stray, scriptVars>>

\* Somebody puts a file that is no descriptor into <DownloadDir>/torrents.
StrayFile ==
    /\ ~stray
    /\ stray' = TRUE
    /\ UNCHANGED <<gatewayVars, gw, exitCode, files, pending, before, scriptVars>>

\* --------------------------------------------------------- the player script

\* string.find with a plain pattern: the text occurs somewhere in s.
Find(s, p) == \E i \in 1..(Len(s) - Len(p) + 1) : SubSeq(s, i, i + Len(p) - 1) = p

Digits == {"0", "1", "2", "3", "4", "5", "6", "7", "8", "9"}

\* string.find with "192%.168%.%d+%.%d+".
FindLan(s) ==
    \E i \in 1..Len(s) : \E j \in (i + 9)..(Len(s) - 1) :
        /\ SubSeq(s, i, i + 7) = "192.168."
        /\ \A k \in (i + 8)..(j - 1) : SubSeq(s, k, k) \in Digits
        /\ SubSeq(s, j, j) = "."
        /\ SubSeq(s, j + 1, j + 1) \in Digits

\* EXCLUDE_PATTERNS: the path is taken for a URL the gateway serves.
Excluded(path) == Find(path, "127.0.0.1") \/ FindLan(path) \/ Find(path, "/torrents/")

\* TORRENT_PATTERNS: the path is taken for a torrent identifier.
TorrentPath(path) ==
    \/ HasSuffix(path, ".torrent")
    \/ HasPrefix(path, "magnet:?xt=urn:btih:")
    \/ HasPrefix(path, "http://") \/ HasPrefix(path, "https://")
    \/ Len(path) = HashLen /\ \A i \in 1..Len(path) : SubSeq(path, i, i) \in HexChars

\* The address in a stream URL: fmt's %s of localIP.
Address(ip) ==
    CASE ip = "loopback" -> "127.0.0.1"
      [] ip = "lan" -> "10.0.0.7"
      [] ip = "nil" -> "<nil>"

\* Addresses a host may have.
Addresses == { Address(ip) : ip \in {"loopback", "lan", "nil"} } \cup {"192.168.1.7"}

\* The URL gone wrong: the route has no /torrents/ segment.
BuildUrlNoSegment(addr, t, path) ==
    "http://" \o addr \o ":6969/" \o HexString(t) \o "/" \o path

\* BuildUrl: http://<localIP>:<Port>/torrents/<InfoHash>/<DisplayPath>.
BuildUrl(addr, t, path) ==
    "http://" \o addr \o ":6969/torrents/" \o HexString(t) \o "/" \o path

\* Every stream URL the gateway can emit.
StreamUrls ==
    UNION { { BuildUrl(a, t, path) : a \in Addresses, path \in DisplayPaths(t) } : t \in IH }

\* Most files of a torrent.
MaxFiles == 3

\* Most WrapTorrent calls on the torrent.
MaxProjections == 2

\* The characters of the names, in the order of their bytes.
Alphabet == " #./0123456789:<>ABCDEFGHIJKLMNOPQRSTUVWXYZ_abcdefghijklmnopqrstuvwxyz"

Ord(c) == CHOOSE i \in 1..Len(Alphabet) : SubSeq(Alphabet, i, i) = c

\* a < b on Go strings: byte by byte, a proper prefix is less.
RECURSIVE StrLess(_, _)
StrLess(a, b) ==
    IF b = "" THEN FALSE
    ELSE IF a = "" THEN TRUE
    ELSE LET x == Ord(SubSeq(a, 1, 1))
             y == Ord(SubSeq(b, 1, 1)) IN
         IF x # y THEN x < y
         ELSE StrLess(SubSeq(a, 2, Len(a)), SubSeq(b, 2, Len(b)))

\* The index of the last occurrence of character c in s, 0 when none.
LastIndex(s, c) ==
    LET at == { i \in 1..Len(s) : SubSeq(s, i, i) = c } IN
    IF at = {} THEN 0 ELSE CHOOSE i \in at : \A j \in at : j <= i

\* filepath.Base of a display path: its last segment.
Base(path) == SubSeq(path, LastIndex(path, "/") + 1, Len(path))

\* filepath.Ext: the suffix of the last segment from its last dot on.
Ext(path) ==
    LET name == Base(path)
        dot == LastIndex(name, ".") IN
    IF dot = 0 THEN "" ELSE SubSeq(name, dot, Len(name))

\* len(strings.Split(path, "/")).
Depth(path) == Cardinality({ i \in 1..Len(path) : SubSeq(path, i, i) = "/" }) + 1

\* mime.TypeByExtension with the host's MIME table.
TypeByExtension(ext) ==
    CASE ext = ".mkv" -> "video/x-matroska"
      [] ext = ".mp4" -> "video/mp4"
      [] ext = ".txt" -> "text/plain; charset=utf-8"
      [] ext = ".srt" -> "application/x-subrip"
      [] OTHER -> ""

\* fmt's %s of a net.IP.
IPString(ip) ==
    IF ip = <<>> THEN "<nil>"
    ELSE ToString(ip[1]) \o "." \o ToString(ip[2]) \o "." \o ToString(ip[3]) \o "."
             \o ToString(ip[4])

\* The less function of both sorts on keys <<depth, name>>: the depth
\* decides when it differs, else the name.
KeyLess(j, k) == IF j[1] # k[1] THEN j[1] < k[1] ELSE StrLess(j[2], k[2])

\* One element put into a sorted sequence: before the first element that
\* is greater, and when how is "reverse" before the first that is not
\* less.
Insert(x, sorted, how) ==
    LET stop == { i \in 1..Len(sorted) :
                    \/ KeyLess(x.key, sorted[i].key)
                    \/ how = "reverse" /\ ~KeyLess(sorted[i].key, x.key) }
        at == IF stop = {} THEN Len(sorted) + 1 ELSE CHOOSE i \in stop : \A j \in stop : i <= j IN
    SubSeq(sorted, 1, at - 1) \o <<x>> \o SubSeq(sorted, at, Len(sorted))

\* sort.Slice on elements with a key: sorted by KeyLess; the order of
\* elements that compare equal is not specified, it is as the build's
\* algorithm leaves it (how).
RECURSIVE SortSlice(_, _)
SortSlice(s, how) ==
    IF s = <<>> THEN <<>>
    ELSE Insert(s[Len(s)], SortSlice(SubSeq(s, 1, Len(s) - 1), how), how)

\* The sort gone wrong: the depth is not looked at.
FileKeyByName(path) == <<0, Base(path)>>

\* The key WrapFiles sorts a file by: its depth, then its name.
FileKey(path) == <<Depth(path), Base(path)>>

\* The FileInfo of a file.
FileInfo(addr, t, path) ==
    [Name |-> Base(path), URL |-> BuildUrl(addr, t, path),
     MimeType |-> TypeByExtension(Ext(path)), key |-> FileKey(path)]

\* The body of WrapFiles after the address is known: one FileInfo per file
\* of t.Files(), sorted by (depth, name).
WrapFilesOn(addr, t, paths, how) ==
    SortSlice([i \in 1..Len(paths) |-> FileInfo(addr, t, paths[i])], how)

\* The test of BuildPlaylist on a file.
IsVideo(f) == HasPrefix(TypeByExtension(Ext(f.Name)), "video")

\* The lines of the playlist: the header, and per video file the title
\* line and the URL.
RECURSIVE PlaylistLines(_)
PlaylistLines(fs) ==
    IF fs = <<>> THEN <<>>
    ELSE (IF IsVideo(fs[1]) THEN <<"#EXTINF:0," \o fs[1].Name, fs[1].URL>> ELSE <<>>)
            \o PlaylistLines(Tail(fs))

\* strings.Join.
RECURSIVE Join(_, _)
Join(lines, sep) ==
    IF lines = <<>> THEN ""
    ELSE IF Len(lines) = 1 THEN lines[1]
    ELSE lines[1] \o sep \o Join(Tail(lines), sep)

\* BuildPlaylist on the FileInfo sequence of WrapFiles.
BuildPlaylistOf(fs) == Join(<<"#EXTM3U">> \o PlaylistLines(fs), "\n")

\* BuildPlaylist over the wrapped files (sorted by depth, then by name).
BuildPlaylist(addr, t) ==
    BuildPlaylistOf(WrapFilesOn(addr, t, <<"s/v.mkv", "v.mkv">>, "stable"))

\* The paths files of a torrent have.
PathPool == { "v.mkv", "s/v.mkv", "a/v.mkv", "b/v.mkv", "n.txt", "b.mp4" }

\* t.Files(): up to MaxFiles files with different paths, in any order.
FileLists ==
    { fl \in SeqsUpTo(PathPool, MaxFiles) :
        fl # <<>> /\ \A i, j \in 1..Len(fl) : i # j => fl[i] # fl[j] }

\* The tie order gone wrong: it changes from call to call.
TiesByTurn == IF Len(proj) % 2 = 0 THEN "stable" ELSE "reverse"

\* How sort.Slice leaves equal elements in this build.
Ties == tie

\* The metadata of the torrent arrives: t.Files() is fl from now on. The
\* build's sort is what it is.
GotMetadata ==
    /\ meta = <<>>
    /\ meta' \in FileLists
    /\ tie' \in {"stable", "reverse"}
    /\ UNCHANGED <<gatewayVars, processVars, scriptVars>>
    /\ UNCHANGED <<host, cache, asked, proj, client, array, fetch>>

\* WrapTorrent on the resolved torrent: WrapFiles resolves the address if
\* it has to and fails when that failed, else the files are wrapped and
\* sorted and the playlist is built.
WrapTorrent ==
    /\ host # NoHost
    /\ meta # <<>>
    /\ Len(proj) < MaxProjections
    /\ LET call == To4(cache.ip) = <<>> \/ cache.err # ""
           c == IF call THEN GetLocalIPOn(host) ELSE cache
           fs == WrapFilesOn(IPString(c.ip), 1, meta, Ties) IN
        /\ cache' = c
        /\ asked' = IF call THEN asked + 1 ELSE asked
        /\ proj' = Append(proj,
                IF c.err # "" THEN [err |-> "error wrapping files", files |-> <<>>, playlist |-> ""]
                ELSE [err |-> "", files |-> fs, playlist |-> BuildPlaylistOf(fs)])
    /\ UNCHANGED <<gatewayVars, processVars, scriptVars>>
    /\ UNCHANGED <<host, meta, tie, client, array, fetch>>

Playlists == [a \in Addresses |-> [t \in IH |-> BuildPlaylist(a, t)]]

\* What the player may be told to open: identifiers of every shape, the
\* stream URLs of a playlist, local files.
OpenPaths ==
    { BuildUrl(Address("lan"), t, "v.mkv") : t \in IH }
    \cup { HexString(t) : t \in IH }
    \cup { MagnetHead \o HexString(1), "https://h/a", "/d/a.torrent", "/d/torrents/n.torrent",
           "foo", "/home/u/movie.mkv" }

\* The hook's two tests and AddTorrent's switch over these paths.
Hook == [path \in OpenPaths |->
            [excluded |-> Excluded(path), torrent |-> TorrentPath(path),
             add |-> [env \in BOOLEAN |-> AddTorrent(path, env)]]]

\* A subprocess command the script ran, and whether its status was 0.
Cmd(c, ok) == [cmd |-> c, ok |-> ok]

ProbeCmd == "curl -s --connect-timeout 0.25 localhost:6969/torrents"

PollCmd == "curl -s --connect-timeout 5 localhost:6969/torrents"

SpawnCmd == "go_torrent_mpv.exe"

ExitCmd == "curl localhost:6969/exit"

PostCmd(id) == "curl -s --retry 10 -d " \o id \o " localhost:6969/torrents"

DeleteCmd(t) == "curl -X DELETE localhost:6969/torrents/" \o HexString(t)

MenuCmd == "script-message-to uosc open-menu"

\* The answers a health probe can get: status 0 only from a serving gateway
\* that answers in time.
ProbeAnswers == IF gw = "serving" THEN BOOLEAN ELSE {FALSE}

\* The answers a poll can get from a gateway in phase g with session table
\* ts: the listed fingerprints, or a failure of curl.
PollAnswers(g, ts) ==
    { [ok |-> FALSE, list |-> {}] } \cup
    (IF g = "serving" THEN { [ok |-> TRUE, list |-> { t \in IH : ts[t] # "absent" }] } ELSE {})

\* The start gone wrong: the running flag is not consulted.
startUnguarded(S, probe, spawn) ==
    IF probe THEN
        [S |-> [S EXCEPT !.client_running = TRUE], cmds |-> <<Cmd(ProbeCmd, TRUE)>>,
         ret |-> TRUE, spawns |-> 0]
    ELSE IF ~spawn THEN
        [S |-> S, cmds |-> <<Cmd(ProbeCmd, FALSE), Cmd(SpawnCmd, FALSE)>>,
         ret |-> FALSE, spawns |-> 0]
    ELSE
        [S |-> [S EXCEPT !.client_running = TRUE, !.launched_by_us = TRUE],
         cmds |-> <<Cmd(ProbeCmd, FALSE), Cmd(SpawnCmd, TRUE)>>, ret |-> TRUE, spawns |-> 1]

\* Client.start on the state S, with the answers of the probe and of the
\* spawn: the new state, the commands run, the return value and the number
\* of subprocesses spawned.
start(S, probe, spawn) ==
    IF S.client_running THEN [S |-> S, cmds |-> <<>>, ret |-> FALSE, spawns |-> 0]
    ELSE IF probe THEN
        [S |-> [S EXCEPT !.client_running = TRUE], cmds |-> <<Cmd(ProbeCmd, TRUE)>>,
         ret |-> TRUE, spawns |-> 0]
    ELSE IF ~spawn THEN
        [S |-> S, cmds |-> <<Cmd(ProbeCmd, FALSE), Cmd(SpawnCmd, FALSE)>>,
         ret |-> FALSE, spawns |-> 0]
    ELSE
        [S |-> [S EXCEPT !.client_running = TRUE, !.launched_by_us = TRUE],
         cmds |-> <<Cmd(ProbeCmd, FALSE), Cmd(SpawnCmd, TRUE)>>, ret |-> TRUE, spawns |-> 1]

\* The close gone wrong: only the running flag is reset.
closeKeepsOwner(S) ==
    IF S.client_running /\ S.launched_by_us
    THEN [S |-> [S EXCEPT !.client_running = FALSE], cmds |-> <<Cmd(ExitCmd, TRUE)>>]
    ELSE [S |-> S, cmds |-> <<>>]

\* The close gone wrong: who launched the gateway is not consulted.
closeAnyway(S) ==
    IF S.client_running
    THEN [S |-> [S EXCEPT !.client_running = FALSE, !.launched_by_us = FALSE],
          cmds |-> <<Cmd(ExitCmd, TRUE)>>]
    ELSE [S |-> S, cmds |-> <<>>]

\* Client.close: the exit request is sent and both flags are reset when the
\* gateway is marked running and launched by the script.
close(S) ==
    IF S.client_running /\ S.launched_by_us
    THEN [S |-> [S EXCEPT !.client_running = FALSE, !.launched_by_us = FALSE],
          cmds |-> <<Cmd(ExitCmd, TRUE)>>]
    ELSE [S |-> S, cmds |-> <<>>]

\* The gateway's phase after the commands of a call: an exit request stops
\* a serving gateway.
AfterExit(g, cmds) ==
    IF g = "serving" /\ \E i \in 1..Len(cmds) : cmds[i].cmd = ExitCmd THEN "stopping" ELSE g

\* Client.update_status with the answer a of the poll: nothing when the
\* gateway is not marked running or the poll failed, else every listed
\* torrent is written into State.torrents.
update_status(S, a) ==
    IF ~S.client_running THEN [S |-> S, cmds |-> <<>>]
    ELSE IF ~a.ok THEN [S |-> S, cmds |-> <<Cmd(PollCmd, FALSE)>>]
    ELSE [S |-> [S EXCEPT !.torrents = @ \cup a.list], cmds |-> <<Cmd(PollCmd, TRUE)>>]

\* Menu.show: create_torrent_menu polls, then the menu is sent to uosc.
show(S, a) ==
    LET u == update_status(S, a) IN
    [S |-> u.S, cmds |-> u.cmds \o <<Cmd(MenuCmd, TRUE)>>]

\* TorrentOps.remove: the DELETE is sent detached and the entry is dropped
\* from State.torrents.
remove(S, t) ==
    IF ~S.client_running \/ t \notin S.torrents THEN [S |-> S, cmds |-> <<>>, ret |-> FALSE]
    ELSE [S |-> [S EXCEPT !.torrents = @ \ {t}], cmds |-> <<Cmd(DeleteCmd(t), TRUE)>>,
          ret |-> TRUE]

\* The gateway's answer to the POST of TorrentOps.add, by what the outside
\* world (env), the address resolution (w) and the descriptor write (how)
\* do: the response body curl prints, and the gateway's state afterwards.
\* The call returns when the session's metadata is there. A gateway that is
\* not serving answers nothing.
PostAnswer(id, env, w, how) ==
    LET res == Hook[id].add[env]
        same == [body |-> "", torrents |-> torrents, ip |-> localIP, ipErr |-> ipErr,
                 saved |-> saved] IN
    IF gw # "serving" THEN same
    ELSE IF res.err # "" THEN [same EXCEPT !.body = res.err]
    ELSE LET ts == [torrents EXCEPT ![res.t] = "resolved"] IN
         IF w.fail
         THEN [same EXCEPT !.body = "Error building playlist", !.torrents = ts,
                           !.ip = w.ip, !.ipErr = w.ipErr]
         ELSE [body |-> Playlists[Address(w.ip)][res.t], torrents |-> ts, ip |-> w.ip,
               ipErr |-> w.ipErr,
               saved |-> IF resume THEN SaveTorrentFile(res.t, how) ELSE saved]

\* The script's entry points. Each is one call on the player's control
\* thread; mp records the call, the commands it ran and the open target.

\* init, when the script is loaded: Client:start() (startClientOnMpvLaunch).
init ==
    /\ mp = NoCommand
    /\ \E probe \in ProbeAnswers, spawn \in BOOLEAN :
        LET st == start(State, probe, spawn) IN
        /\ State' = st.S
        /\ mp' = [call |-> "init", arg |-> "", cmds |-> st.cmds, open |-> "",
                  flag |-> FALSE, stop |-> FALSE]
        /\ spawned' = spawned + st.spawns
        /\ UNCHANGED <<gatewayVars, processVars, detached>>

\* The client-start message: Client:start(), then Menu:show().
ClientStart ==
    \E probe \in ProbeAnswers, spawn \in BOOLEAN, a \in PollAnswers(gw, torrents) :
        LET st == start(State, probe, spawn)
            sh == show(st.S, a) IN
        /\ State' = sh.S
        /\ mp' = [call |-> "client-start", arg |-> "", cmds |-> st.cmds \o sh.cmds, open |-> "",
                  flag |-> FALSE, stop |-> FALSE]
        /\ spawned' = spawned + st.spawns
        /\ UNCHANGED <<gatewayVars, processVars, detached>>

\* The client-stop message: Client:close(), then Menu:show().
ClientStop ==
    \E a \in PollAnswers(gw, torrents) :
        LET cl == close(State)
            sh == show(cl.S, a) IN
        /\ State' = sh.S
        /\ mp' = [call |-> "client-stop", arg |-> "", cmds |-> cl.cmds \o sh.cmds, open |-> "",
                  flag |-> FALSE, stop |-> TRUE]
        /\ spawned' = 0
        /\ gw' = AfterExit(gw, cl.cmds)
        /\ UNCHANGED <<gatewayVars, exitCode, files, pending, before, stray, detached>>

\* Alt+t: Menu:show().
ToggleMenu ==
    \E a \in PollAnswers(gw, torrents) :
        LET sh == show(State, a) IN
        /\ State' = sh.S
        /\ mp' = [call |-> "toggle-torrent-menu", arg |-> "", cmds |-> sh.cmds, open |-> "",
                  flag |-> FALSE, stop |-> FALSE]
        /\ UNCHANGED <<gatewayVars, processVars, spawned, detached>>

\* Menu.handle_callback for an activated delete action of the Remove
\* Torrent menu: TorrentOps:remove, then Menu:show(). The DELETE is sent
\* detached: the gateway may serve it before it answers the poll of
\* Menu:show() (served) or after the call.
MenuDelete(action, t) ==
    LET rm == remove(State, t) IN
    \E served \in (IF rm.ret /\ gw = "serving" THEN BOOLEAN ELSE {FALSE}) :
        LET ts == IF served THEN [torrents EXCEPT ![t] = "absent"] ELSE torrents IN
        \E a \in PollAnswers(gw, ts) :
            LET sh == show(rm.S, a) IN
            /\ State' = sh.S
            /\ mp' = [call |-> "menu-callback", arg |-> action, cmds |-> rm.cmds \o sh.cmds,
                      open |-> "", flag |-> FALSE, stop |-> FALSE]
            /\ detached' = IF rm.ret /\ ~served THEN detached \cup {t} ELSE detached
            /\ torrents' = ts
            /\ UNCHANGED <<pieces, saved, localIP, ipErr, resume, req, lastCall>>
            /\ UNCHANGED <<processVars, spawned>>

\* The gateway serves a detached DELETE (no query): the session is dropped.
\* A gateway that is not serving loses the request.
ServeDelete(t) ==
    /\ t \in detached
    /\ detached' = detached \ {t}
    /\ torrents' = IF gw = "serving" THEN [torrents EXCEPT ![t] = "absent"] ELSE torrents
    /\ UNCHANGED <<pieces, saved, localIP, ipErr, resume, req, lastCall>>
    /\ UNCHANGED <<processVars, State, mp, spawned>>

\* The test at the end gone wrong: the flag is not looked at.
StopsAtEndUnflagged(S, closeClientOnNoTorrentFiles) == S.torrents = {}

\* The test at the end of on_file_loaded: no torrent in State.torrents and
\* closeClientOnNoTorrentFiles set.
StopsAtEnd(S, closeClientOnNoTorrentFiles) == S.torrents = {} /\ closeClientOnNoTorrentFiles

\* The end of on_file_loaded when the target is not replaced: the path was
\* no identifier, the start failed or the POST gave no playlist. With no
\* torrent in State.torrents and closeClientOnNoTorrentFiles set,
\* Client:close() is called.
on_file_loaded_end(path, st, posted, closeClientOnNoTorrentFiles) ==
    LET stop == StopsAtEnd(st.S, closeClientOnNoTorrentFiles)
        cl == IF stop THEN close(st.S) ELSE [S |-> st.S, cmds |-> <<>>] IN
    /\ State' = cl.S
    /\ mp' = [call |-> "on_load", arg |-> path,
              cmds |-> st.cmds \o (IF posted THEN <<Cmd(PostCmd(path), FALSE)>> ELSE <<>>)
                           \o cl.cmds,
              open |-> path, flag |-> closeClientOnNoTorrentFiles, stop |-> stop]
    /\ spawned' = IF stop THEN 0 ELSE spawned + st.spawns
    /\ gw' = AfterExit(gw, cl.cmds)
    /\ UNCHANGED <<gatewayVars, exitCode, files, pending, before, stray, detached>>

\* The answers of the outside world, of the address resolution and of the
\* descriptor write that make a difference to the POST of a path. The host
\* of the gateway has a default route: the address resolves to a LAN address.
PostWorlds(path) ==
    LET added == gw = "serving" /\ Hook[path].add[TRUE].err = "" IN
    { [env |-> env, w |-> w, how |-> how] :
        env \in (IF gw = "serving" /\ (MatchHttp(path) \/ MatchTorrent(path))
                 THEN BOOLEAN ELSE {TRUE}),
        w \in (IF added THEN { o \in WrapFiles : o.ip = "lan" }
               ELSE {[ip |-> localIP, ipErr |-> ipErr, fail |-> FALSE]}),
        how \in (IF added /\ resume THEN SaveOutcomes ELSE {"ok"}) }

\* on_file_loaded for the path the player is about to open: nothing for a
\* path that matches an exclusion pattern; for a path that matches an
\* identifier pattern Client:start(), and if that returns true
\* TorrentOps:add, Client:update_status and the new open target.
on_file_loaded(path) ==
    \E closeClientOnNoTorrentFiles \in BOOLEAN :
    IF Hook[path].excluded THEN
        /\ mp' = [call |-> "on_load", arg |-> path, cmds |-> <<>>, open |-> path,
                  flag |-> closeClientOnNoTorrentFiles, stop |-> FALSE]
        /\ UNCHANGED <<gatewayVars, processVars, State, spawned, detached>>
    ELSE IF ~Hook[path].torrent THEN
        on_file_loaded_end(path, [S |-> State, cmds |-> <<>>, ret |-> FALSE, spawns |-> 0], FALSE,
                           closeClientOnNoTorrentFiles)
    ELSE
        \E probe \in (IF State.client_running THEN {FALSE} ELSE ProbeAnswers) :
        \E spawn \in (IF State.client_running \/ probe THEN {FALSE} ELSE BOOLEAN) :
            LET st == start(State, probe, spawn) IN
            IF ~st.ret THEN on_file_loaded_end(path, st, FALSE, closeClientOnNoTorrentFiles)
            ELSE \E o \in PostWorlds(path) :
                LET ans == PostAnswer(path, o.env, o.w, o.how) IN
                IF ans.body = "" THEN on_file_loaded_end(path, st, TRUE, closeClientOnNoTorrentFiles)
                ELSE \E a \in PollAnswers(gw, ans.torrents) :
                    LET us == update_status(st.S, a) IN
                    /\ State' = us.S
                    /\ mp' = [call |-> "on_load", arg |-> path,
                              cmds |-> st.cmds \o <<Cmd(PostCmd(path), TRUE)>> \o us.cmds,
                              open |-> "memory://" \o ans.body,
                              flag |-> closeClientOnNoTorrentFiles, stop |-> FALSE]
                    /\ spawned' = spawned + st.spawns
                    /\ torrents' = ans.torrents
                    /\ localIP' = ans.ip
                    /\ ipErr' = ans.ipErr
                    /\ saved' = ans.saved
                    /\ UNCHANGED <<pieces, resume, req, lastCall, processVars, detached>>

\* ------------------------------------------------------------ specification

\* The client of a running request goes away or times out: r.Context() is
\* cancelled.
Cancel(r) ==
    /\ ~Free(r)
    /\ ~req[r].cancelled
    /\ req' = [req EXCEPT ![r].cancelled = TRUE]
    /\ UNCHANGED <<torrents, pieces, saved, localIP, ipErr, resume, lastCall>>

Engine ==
    \/ \E t \in IH : Resolve(t)
    \/ \E t \in IH, i \in 1..NumPieces : StorePiece(t, i)

PostArrive(r) ==
    \/ \E id \in Identifiers : \E env \in WorldsOf[id] : HandlePostTorrents(r, id, TRUE, env)
    \/ HandlePostTorrents(r, "", FALSE, TRUE)

ReadArrive(r) ==
    \/ \E t \in IH : HandleGetInfoHash(r, t)
    \/ \E t \in IH, path \in Paths : HandleGetInfoHashFile(r, t, path)
    \/ HandleGetTorrents(r)

DeleteArrive(r) == \E t \in IH, q \in Queries : HandleDeleteInfoHash(r, t, q)

WaitStep(r) ==
    \/ PostGotInfo(r)
    \/ PostSave(r)
    \/ GetGotInfo(r)
    \/ FileGotInfo(r)
    \/ ServeContent(r)
    \/ ListGotInfo(r)

DeleteStep(r) ==
    \/ DeletePurge(r)
    \/ DeleteRemove(r)
    \/ DeleteDrop(r)

\* A step of the gateway's handlers or of the engine while the process
\* serves: the process and the player script do nothing.
Quiet == UNCHANGED <<historyVars, listenVars>>

NoProjection == UNCHANGED <<projectorVars, historyVars, listenVars>>

GatewayOnly == UNCHANGED <<processVars, scriptVars, projectorVars, historyVars, listenVars>>

\* The connection of a client that sends one request at a time and waits for
\* the response (the supervisor's control thread).
First == CHOOSE r \in Slots : \A s \in Slots : r <= s

\* The gateway serving one client that sends its requests one at a time,
\* while the engine resolves sessions and stores pieces.
Next ==
    \/ Engine /\ GatewayOnly
    \/ PostArrive(First) /\ GatewayOnly
    \/ ReadArrive(First) /\ GatewayOnly
    \/ DeleteArrive(First) /\ GatewayOnly
    \/ WaitStep(First) /\ GatewayOnly
    \/ DeleteStep(First) /\ GatewayOnly

Spec == Init /\ [][Next]_vars

\* AddTorrent called on its own, identifier after identifier.
ClassifyNext ==
    \/ (\E id \in Identifiers : \E env \in WorldsOf[id] : AddTorrentCall(id, env)) /\ GatewayOnly
    \/ (\E t \in IH : Resolve(t)) /\ GatewayOnly

ClassifySpec == Init /\ [][ClassifyNext]_vars

\* The gateway serving concurrent clients that add and read torrents and may
\* go away before the response. A handler that can take a step takes it in
\* the end (the Go scheduler runs every runnable goroutine); nothing makes
\* the engine resolve a session.
WaitNext ==
    \/ (\E t \in IH : Resolve(t)) /\ GatewayOnly
    \/ (\E r \in Slots : PostArrive(r)) /\ GatewayOnly
    \/ (\E r \in Slots : ReadArrive(r)) /\ GatewayOnly
    \/ (\E r \in Slots : WaitStep(r)) /\ GatewayOnly
    \/ (\E r \in Slots : Cancel(r)) /\ GatewayOnly

FairSpec ==
    Init /\ [][WaitNext]_vars /\ \A r \in Slots : WF_vars(WaitStep(r) /\ GatewayOnly)

\* The handlers of a process run from the start of the server until the
\* process ends; requests arrive while it serves.
Running == gw \in {"serving", "stopping", "closing"}

\* The life of the gateway process: it starts and resumes, serves one client
\* that adds torrents, is told to stop by another client or by a signal,
\* shuts down and starts again.
LifeNext ==
    \/ \E dirOk \in BOOLEAN : InitClient(dirOk) /\ NoProjection
    \/ \E e \in pending : ResumeTorrent(e) /\ NoProjection
    \/ InitServer /\ NoProjection
    \/ StrayFile /\ NoProjection
    \/ gw = "serving" /\ PostArrive(First) /\ GatewayOnly
    \/ \E r \in Slots \ {First} : HandleExit(r) /\ NoProjection
    \/ Interrupt /\ NoProjection
    \/ Running /\ GatewayOnly /\ \E t \in IH : Resolve(t)
    \/ Running /\ GatewayOnly /\ \E r \in Slots : WaitStep(r)
    \/ GracefulShutdown /\ NoProjection
    \/ RunReturn /\ NoProjection

LifeSpec == Init /\ [][LifeNext]_vars

\* The end of one gateway process: clients add torrents and stream files,
\* one of them asks for the exit or a signal arrives, and the process shuts
\* down.
ExitNext ==
    \/ gw = "serving" /\ PostArrive(First) /\ GatewayOnly
    \/ gw = "serving" /\ GatewayOnly
          /\ \E r \in Slots, t \in IH, path \in Paths : HandleGetInfoHashFile(r, t, path)
    \/ \E r \in Slots : HandleExit(r) /\ NoProjection
    \/ Interrupt /\ NoProjection
    \/ Running /\ GatewayOnly /\ \E t \in IH : Resolve(t)
    \/ Running /\ GatewayOnly /\ \E r \in Slots : WaitStep(r)
    \/ GracefulShutdown /\ NoProjection
    \/ RunReturn /\ NoProjection

\* The main goroutine goes on when it can: the shutdown window ends and run
\* returns. Nothing makes a client end its stream or the engine resolve a
\* session.
ExitSpec ==
    Init /\ [][ExitNext]_vars /\ WF_vars(GracefulShutdown /\ NoProjection)
         /\ WF_vars(RunReturn /\ NoProjection)

\* The player script and the gateway it supervises: the script's entry
\* points are called one at a time; the gateway process is started by the
\* script's spawn or by somebody else, serves the script's requests, and is
\* stopped by the script's exit request or by a signal.
ScriptNext ==
    \/ init /\ NoProjection
    \/ ClientStart /\ NoProjection
    \/ ClientStop /\ NoProjection
    \/ ToggleMenu /\ NoProjection
    \/ \E action \in {"delete", "delete_files"}, t \in IH : MenuDelete(action, t) /\ NoProjection
    \/ \E path \in OpenPaths : on_file_loaded(path) /\ NoProjection
    \/ \E t \in IH : ServeDelete(t) /\ NoProjection
    \/ \E dirOk \in BOOLEAN : InitClient(dirOk) /\ NoProjection
    \/ Interrupt /\ NoProjection
    \/ GracefulShutdown /\ NoProjection
    \/ RunReturn /\ NoProjection

\* The gateway is run without resume.
ScriptInit == Init /\ ~resume

\* A POST arrives on connection r: the sessions that are active now are
\* remembered.
PostArriveNoted(r) ==
    /\ PostArrive(r)
    /\ prior' = [prior EXCEPT ![r] = Active]
    /\ UNCHANGED <<removed, processVars, scriptVars, projectorVars, listenVars>>

\* The gateway serving one client that adds and deletes torrents, one
\* request at a time, while the engine resolves sessions and stores pieces.
AuditNext ==
    \/ Engine /\ GatewayOnly
    \/ PostArriveNoted(First)
    \/ DeleteArrive(First) /\ GatewayOnly
    \/ WaitStep(First) /\ GatewayOnly
    \/ DeleteStep(First) /\ GatewayOnly

AuditSpec == Init /\ [][AuditNext]_vars

\* A POST that adds a session: the fingerprint is no longer one that a
\* DELETE has removed.
PostArriveAgain(r) ==
    /\ PostArrive(r)
    /\ removed' = IF req'[r].pc = "post_wait" THEN removed \ {req'[r].t} ELSE removed
    /\ UNCHANGED <<prior, processVars, scriptVars, projectorVars, listenVars>>

\* A step of the DELETE handler; the drop at the end of a DELETE without
\* the data-deletion flag removes the fingerprint.
DeleteStepNoted(r) ==
    LET t == req[r].t IN
    /\ DeleteStep(r)
    /\ removed' = IF /\ req[r].pc = "del_drop"
                     /\ ~DeleteFilesRequested(req[r].q)
                     /\ torrents[t] # "absent" /\ torrents'[t] = "absent"
                  THEN removed \cup {t} ELSE removed
    /\ UNCHANGED <<prior, processVars, scriptVars, projectorVars, listenVars>>

\* The gateway with resume: it starts and resumes, serves one client that
\* adds and deletes torrents, is stopped by a signal and starts again.
RestartNext ==
    \/ \E dirOk \in BOOLEAN : InitClient(dirOk) /\ NoProjection
    \/ \E e \in pending : ResumeTorrent(e) /\ NoProjection
    \/ InitServer /\ NoProjection
    \/ gw = "serving" /\ PostArriveAgain(First)
    \/ gw = "serving" /\ DeleteArrive(First) /\ GatewayOnly
    \/ Running /\ GatewayOnly /\ \E t \in IH : Resolve(t)
    \/ Running /\ GatewayOnly /\ WaitStep(First)
    \/ Running /\ DeleteStepNoted(First)
    \/ Interrupt /\ NoProjection
    \/ GracefulShutdown /\ NoProjection
    \/ RunReturn /\ NoProjection

RestartSpec == Init /\ [][RestartNext]_vars

\* The goroutine of InitServer calls server.ListenAndServe: the listener is
\* bound and serves, or the bind fails and the call returns the error; after
\* server.Shutdown the call returns ErrServerClosed at once.
ListenAndServe ==
    /\ listener.at = "idle"
    /\ gw # "down"
    /\ \E err \in (IF gw = "closing" THEN {"closed"} ELSE {"", "bind"}) :
        listener' = IF err = "" THEN [at |-> "listening", err |-> ""]
                    ELSE [at |-> "returned", err |-> err]
    /\ UNCHANGED <<gatewayVars, processVars, scriptVars>>
    /\ UNCHANGED <<projectorVars, historyVars, serverErr, runPc>>

\* The listener stops serving: Accept returns an error that is not
\* temporary and ListenAndServe returns it.
ServeFails ==
    /\ listener.at = "listening"
    /\ listener' = [at |-> "returned", err |-> "serve"]
    /\ UNCHANGED <<gatewayVars, processVars, scriptVars>>
    /\ UNCHANGED <<projectorVars, historyVars, serverErr, runPc>>

\* The goroutine gone wrong: it logs the error and ends without cancel().
ListenerEnds ==
    /\ listener.at = "returned"
    /\ listener' = [listener EXCEPT !.at = "done"]
    /\ UNCHANGED <<gatewayVars, processVars, scriptVars>>
    /\ UNCHANGED <<projectorVars, historyVars, serverErr, runPc>>

\* ListenAndServe has returned: the goroutine logs an error other than
\* ErrServerClosed and calls cancel(), which ends run's wait on ctx.Done().
ListenerCancel ==
    /\ listener.at = "returned"
    /\ listener' = [listener EXCEPT !.at = "done"]
    /\ gw' = IF gw = "serving" THEN "stopping" ELSE gw
    /\ UNCHANGED <<gatewayVars, exitCode, files, pending, before, stray, scriptVars>>
    /\ UNCHANGED <<projectorVars, historyVars, serverErr, runPc>>

\* gracefulShutdown: server.Shutdown closes the listener, and
\* ListenAndServe returns ErrServerClosed.
ShutdownListener ==
    /\ GracefulShutdown
    /\ listener' = IF listener.at = "listening"
                   THEN [at |-> "returned", err |-> "closed"] ELSE listener
    /\ UNCHANGED <<projectorVars, historyVars, serverErr, runPc>>

\* run returns and the process ends, its goroutines with it.
ProcessEnds ==
    /\ RunReturn
    /\ listener' = [listener EXCEPT !.at = "done"]
    /\ UNCHANGED <<projectorVars, historyVars, serverErr, runPc>>

\* The gateway from the return of InitServer to the end of the process: the
\* listener goroutine binds and serves or fails, clients add torrents and
\* ask for the exit while the listener serves, a signal arrives.
ListenNext ==
    \/ ListenAndServe
    \/ ServeFails
    \/ ListenerCancel
    \/ gw = "serving" /\ listener.at = "listening" /\ PostArrive(First) /\ GatewayOnly
    \/ listener.at = "listening" /\ NoProjection /\ \E r \in Slots \ {First} : HandleExit(r)
    \/ Interrupt /\ NoProjection
    \/ Running /\ GatewayOnly /\ \E t \in IH : Resolve(t)
    \/ Running /\ GatewayOnly /\ \E r \in Slots : WaitStep(r)
    \/ ShutdownListener
    \/ ProcessEnds

\* The goroutines go on when they can: the listener goroutine reaches its
\* cancel(), the shutdown window ends and run returns.
ListenSpec ==
    Init /\ [][ListenNext]_vars /\ WF_vars(ListenerCancel)
         /\ WF_vars(ShutdownListener) /\ WF_vars(ProcessEnds)

\* ---------------------------------------- run() with the serverErr channel

\* A step of the earlier run() or of its listener goroutine: the handlers
\* and the later revision's process do nothing.
RunOnly ==
    UNCHANGED <<gatewayVars, processVars, scriptVars, projectorVars, historyVars, listener>>

\* The two ways run() was written: a channel of capacity 1 on which the
\* goroutine sends whatever ListenAndServe returns, and an unbuffered
\* channel on which it sends only an error other than ErrServerClosed.
Variants == {"buffered", "unbuffered"}

\* run up to its select: make(chan error[, 1]), defer close(serverErr), the
\* goroutine is started.
RunStart(variant) ==
    /\ runPc = NoRun
    /\ runPc' = [variant |-> variant, main |-> "select", lis |-> "listen",
                 ctx |-> FALSE, shut |-> FALSE]
    /\ serverErr' = [cap |-> IF variant = "buffered" THEN 1 ELSE 0,
                     len |-> 0, closed |-> FALSE]
    /\ RunOnly

\* os.Interrupt: signal.NotifyContext cancels ctx.
Signal ==
    /\ runPc.main \notin {"", "exited"}
    /\ ~runPc.ctx
    /\ runPc' = [runPc EXCEPT !.ctx = TRUE]
    /\ UNCHANGED serverErr
    /\ RunOnly

\* server.ListenAndServe returns in the goroutine: ErrServerClosed once
\* Shutdown was called, else the error of a failed bind. The unbuffered
\* variant ends the goroutine on ErrServerClosed, everything else is to be
\* sent.
ListenerReturns ==
    /\ runPc.lis = "listen"
    /\ runPc.main # "exited"
    /\ runPc' = [runPc EXCEPT !.lis =
            IF runPc.variant = "unbuffered" /\ runPc.shut THEN "ended" ELSE "send"]
    /\ UNCHANGED serverErr
    /\ RunOnly

\* serverErr <- err in the goroutine: on a closed channel the send panics
\* (also a send that was blocked when the channel was closed); with room in
\* the buffer the value is queued. Without room the send waits for run's
\* receive.
Send ==
    /\ runPc.lis = "send"
    /\ runPc.main # "exited"
    /\ serverErr.closed \/ serverErr.len < serverErr.cap
    /\ IF serverErr.closed
       THEN /\ runPc' = [runPc EXCEPT !.lis = "panic"]
            /\ UNCHANGED serverErr
       ELSE /\ runPc' = [runPc EXCEPT !.lis = "ended"]
            /\ serverErr' = [serverErr EXCEPT !.len = @ + 1]
    /\ RunOnly

\* The select takes <-ctx.Done().
SelectCtx ==
    /\ runPc.main = "select"
    /\ runPc.ctx
    /\ runPc' = [runPc EXCEPT !.main = "shutdown"]
    /\ UNCHANGED serverErr
    /\ RunOnly

\* The select takes <-serverErr: a queued value, or the value of a sender
\* that waits on the unbuffered channel. The buffered variant returns, the
\* unbuffered one goes on to server.Shutdown.
SelectErr ==
    LET next == IF runPc.variant = "buffered" THEN "return" ELSE "shutdown" IN
    /\ runPc.main = "select"
    /\ IF serverErr.len > 0
       THEN /\ serverErr' = [serverErr EXCEPT !.len = @ - 1]
            /\ runPc' = [runPc EXCEPT !.main = next]
       ELSE /\ serverErr.cap = 0
            /\ runPc.lis = "send"
            /\ UNCHANGED serverErr
            /\ runPc' = [runPc EXCEPT !.main = next, !.lis = "ended"]
    /\ RunOnly

\* server.Shutdown (gracefulShutdown in the buffered variant): the listener
\* is closed, run goes on to its return.
Shutdown ==
    /\ runPc.main = "shutdown"
    /\ runPc' = [runPc EXCEPT !.main = "return", !.shut = TRUE]
    /\ UNCHANGED serverErr
    /\ RunOnly

\* run returns: the deferred close(serverErr) runs first, before the
\* deferred c.Close().
CloseServerErr ==
    /\ runPc.main = "return"
    /\ serverErr' = [serverErr EXCEPT !.closed = TRUE]
    /\ runPc' = [runPc EXCEPT !.main = "closed"]
    /\ RunOnly

\* The other deferred calls are done, main returns and the process ends.
RunExit ==
    /\ runPc.main = "closed"
    /\ runPc.lis # "panic"
    /\ runPc' = [runPc EXCEPT !.main = "exited"]
    /\ UNCHANGED serverErr
    /\ RunOnly

\* The earlier run() and its listener goroutine, with a client that adds
\* torrents while the listener serves.
RunNext ==
    \/ \E variant \in Variants : RunStart(variant)
    \/ Signal
    \/ ListenerReturns
    \/ Send
    \/ SelectCtx
    \/ SelectErr
    \/ Shutdown
    \/ CloseServerErr
    \/ RunExit
    \/ runPc.lis = "listen" /\ runPc.main = "select" /\ PostArrive(First) /\ GatewayOnly
    \/ runPc.lis = "listen" /\ runPc.main = "select" /\ WaitStep(First) /\ GatewayOnly

RunSpec == Init /\ [][RunNext]_vars

\* A step of the DELETE handler on a disk that works: the piece store opens
\* and os.Remove removes the descriptor file.
DeleteOnSoundDisk(r) ==
    /\ DeleteStep(r)
    /\ req[r].pc = "del_purge" => req'[r].pc = "del_remove"
    /\ req[r].pc = "del_remove" => saved'[NameOf(req[r].t)] = 0

\* A step of a waiting handler on a disk that works: SaveTorrentFile writes
\* the descriptor.
WaitOnSoundDisk(r) ==
    /\ WaitStep(r)
    /\ req[r].pc = "post_save" => saved'[NameOf(req[r].t)] = req[r].t

\* One client adds and reads torrents while another deletes them, on a
\* disk that works. A handler that can take a step takes it in the end (the
\* Go scheduler runs every runnable goroutine); nothing makes the engine
\* resolve a session.
RaceNext ==
    \/ (\E t \in IH : Resolve(t)) /\ GatewayOnly
    \/ PostArrive(First) /\ GatewayOnly
    \/ (\E t \in IH : HandleGetInfoHash(First, t)) /\ GatewayOnly
    \/ (\E r \in Slots \ {First} : DeleteArrive(r)) /\ GatewayOnly
    \/ (\E r \in Slots : WaitOnSoundDisk(r)) /\ GatewayOnly
    \/ (\E r \in Slots : DeleteOnSoundDisk(r)) /\ GatewayOnly

RaceSpec ==
    Init /\ [][RaceNext]_vars
         /\ \A r \in Slots : /\ WF_vars(WaitOnSoundDisk(r) /\ GatewayOnly)
                             /\ WF_vars(DeleteOnSoundDisk(r) /\ GatewayOnly)

\* The address resolver on every host.
ResolverNext ==
    \/ HostNetwork /\ Quiet
    \/ ResolveLocalIP /\ Quiet

ResolverSpec == Init /\ [][ResolverNext]_vars

\* Longest file served, in bytes, and the largest offset a request names.
MaxSize == 3

\* strings.Index: where character c is first in s, 0 when it is not.
IndexOf(s, c) ==
    LET at == { i \in 1..Len(s) : SubSeq(s, i, i) = c } IN
    IF at = {} THEN 0 ELSE CHOOSE i \in at : \A j \in at : i <= j

\* strings.Split.
RECURSIVE Split(_, _)
Split(s, c) ==
    LET i == IndexOf(s, c) IN
    IF i = 0 THEN <<s>> ELSE <<SubSeq(s, 1, i - 1)>> \o Split(SubSeq(s, i + 1, Len(s)), c)

\* textproto.TrimString: the spaces at both ends go.
RECURSIVE TrimString(_)
TrimString(s) ==
    IF s # "" /\ SubSeq(s, 1, 1) = " " THEN TrimString(SubSeq(s, 2, Len(s)))
    ELSE IF s # "" /\ SubSeq(s, Len(s), Len(s)) = " " THEN TrimString(SubSeq(s, 1, Len(s) - 1))
    ELSE s

\* strconv.ParseInt of an unsigned decimal: its value, -1 for an error.
RECURSIVE ParseDigits(_, _)
ParseDigits(s, acc) ==
    IF s = "" THEN acc
    ELSE LET d == IndexOf("0123456789", SubSeq(s, 1, 1)) IN
         IF d = 0 THEN -1 ELSE ParseDigits(SubSeq(s, 2, Len(s)), 10 * acc + d - 1)

ParseInt(s) == IF s = "" THEN -1 ELSE ParseDigits(s, 0)

\* The clamp gone wrong: the end stays where the request put it.
ClampEndNot(i, size) == i

\* An end at or past the size is the last byte.
ClampEnd(i, size) == IF i >= size THEN size - 1 ELSE i

\* One range spec of the header: a range, "skip" for an empty spec or a
\* start at or past the size (noOverlap), "invalid".
ParseSpec(spec, size) ==
    LET ra == TrimString(spec)
        cut == IndexOf(ra, "-")
        first == TrimString(SubSeq(ra, 1, cut - 1))
        last == TrimString(SubSeq(ra, cut + 1, Len(ra))) IN
    IF ra = "" THEN [kind |-> "skip", noOverlap |-> FALSE]
    ELSE IF cut = 0 THEN [kind |-> "invalid"]
    ELSE IF first = "" THEN
        LET i == ParseInt(last)
            n == IF i > size THEN size ELSE i IN
        IF i < 0 THEN [kind |-> "invalid"]
        ELSE [kind |-> "range", start |-> size - n, length |-> n]
    ELSE
        LET i == ParseInt(first) IN
        IF i < 0 THEN [kind |-> "invalid"]
        ELSE IF i >= size THEN [kind |-> "skip", noOverlap |-> TRUE]
        ELSE IF last = "" THEN [kind |-> "range", start |-> i, length |-> size - i]
        ELSE LET j == ParseInt(last) IN
             IF j < 0 \/ i > j THEN [kind |-> "invalid"]
             ELSE [kind |-> "range", start |-> i, length |-> ClampEnd(j, size) - i + 1]

\* parseRange: the ranges of a Range header on a file of size bytes, or an
\* error.
parseRange(s, size) ==
    IF s = "" THEN [ranges |-> <<>>, err |-> ""]
    ELSE IF ~HasPrefix(s, "bytes=") THEN [ranges |-> <<>>, err |-> "invalid range"]
    ELSE LET specs == Split(SubSeq(s, 7, Len(s)), ",")
             parsed == [k \in 1..Len(specs) |-> ParseSpec(specs[k], size)]
             IsRange(x) == x.kind = "range" IN
         IF \E k \in 1..Len(parsed) : parsed[k].kind = "invalid"
         THEN [ranges |-> <<>>, err |-> "invalid range"]
         ELSE IF /\ \E k \in 1..Len(parsed) : parsed[k].kind = "skip" /\ parsed[k].noOverlap
                 /\ SelectSeq(parsed, IsRange) = <<>>
         THEN [ranges |-> <<>>, err |-> "no overlap"]
         ELSE [ranges |-> SelectSeq(parsed, IsRange), err |-> ""]

\* sumRangesSize.
RECURSIVE sumRangesSize(_)
sumRangesSize(ranges) ==
    IF ranges = <<>> THEN 0 ELSE ranges[1].length + sumRangesSize(Tail(ranges))

\* httpRange.contentRange.
contentRange(r, size) ==
    "bytes " \o ToString(r.start) \o "-" \o ToString(r.start + r.length - 1) \o "/" \o ToString(size)

\* http.ServeContent on a GET without conditional headers for a file of
\* size bytes: the status, the Content-Range header, and the bytes of the
\* body as first offset and count.
serveContent(size, rangeReq) ==
    LET p == parseRange(rangeReq, size)
        whole == [status |-> 200, contentRange |-> "", from |-> 0, length |-> size]
        ranges == IF sumRangesSize(p.ranges) > size THEN <<>> ELSE p.ranges IN
    IF p.err = "no overlap" /\ size = 0 THEN whole
    ELSE IF p.err = "no overlap"
    THEN [status |-> 416, contentRange |-> "bytes */" \o ToString(size), from |-> 0, length |-> 0]
    ELSE IF p.err # "" THEN [status |-> 416, contentRange |-> "", from |-> 0, length |-> 0]
    ELSE IF Len(ranges) = 1
    THEN [status |-> 206, contentRange |-> contentRange(ranges[1], size),
          from |-> ranges[1].start, length |-> ranges[1].length]
    ELSE IF Len(ranges) > 1
    THEN [status |-> 206, contentRange |-> "multipart/byteranges", from |-> ranges[1].start,
          length |-> sumRangesSize(ranges)]
    ELSE whole

\* The byte ranges a player asks for: none, first to last, from first on,
\* the last n bytes.
Wants ==
    {[kind |-> "none"]}
        \cup [kind : {"span"}, a : 0..MaxSize, b : 0..MaxSize]
        \cup [kind : {"from"}, a : 0..MaxSize]
        \cup [kind : {"suffix"}, n : 1..MaxSize]

\* The Range header of a wanted range.
RangeHeader(w) ==
    CASE w.kind = "none" -> ""
      [] w.kind = "span" -> "bytes=" \o ToString(w.a) \o "-" \o ToString(w.b)
      [] w.kind = "from" -> "bytes=" \o ToString(w.a) \o "-"
      [] w.kind = "suffix" -> "bytes=-" \o ToString(w.n)

\* Range headers that name no single range.
OddHeaders == { "bytes=", "bytes=0-0,2-2", "bytes= 1 - 2 ", "items=0-1", "bytes=a-", "bytes=0-0,0-2" }

\* A player asks for a known file of some size, with or without a Range
\* header.
GetFile ==
    /\ fetch = NoFetch
    /\ \E size \in 0..MaxSize :
        \/ \E w \in Wants :
              fetch' = [size |-> size, want |-> w, range |-> RangeHeader(w), resp |-> <<>>]
        \/ \E h \in OddHeaders :
              fetch' = [size |-> size, want |-> [kind |-> "odd"], range |-> h, resp |-> <<>>]
    /\ UNCHANGED <<gatewayVars, processVars, scriptVars>>
    /\ UNCHANGED <<host, cache, asked, meta, tie, proj, client, array>>

\* HandleGetInfoHashFile found the file and hands it to http.ServeContent.
ServeRange ==
    /\ fetch # NoFetch
    /\ fetch.resp = <<>>
    /\ fetch' = [fetch EXCEPT !.resp = <<serveContent(fetch.size, fetch.range)>>]
    /\ UNCHANGED <<gatewayVars, processVars, scriptVars>>
    /\ UNCHANGED <<host, cache, asked, meta, tie, proj, client, array>>

\* The responder on every request.
RangeNext ==
    \/ GetFile /\ Quiet
    \/ ServeRange /\ Quiet

RangeSpec == Init /\ [][RangeNext]_vars

\* Hosts of every kind: a LAN address, the loopback address, no address,
\* an error.
SampleHosts ==
    { [fail |-> "", route |-> 1, ifaces |-> <<<<Loopback4, <<192, 168, 1, 20>>>>, <<>>>>],
      [fail |-> "", route |-> 0, ifaces |-> <<<<>>, <<>>>>],
      [fail |-> "", route |-> 2, ifaces |-> <<<<<<10, 0, 0, 5>>>>, <<LinkLocal6>>>>],
      [fail |-> "addrs", route |-> 1, ifaces |-> <<<<<<10, 0, 0, 5>>>>, <<>>>>] }

\* The projector on every file list: the torrent is wrapped again and
\* again, nothing else changes.
ProjectorNext ==
    \/ (\E h \in SampleHosts : HostIs(h)) /\ Quiet
    \/ GotMetadata /\ Quiet
    \/ WrapTorrent /\ Quiet

ProjectorSpec == Init /\ [][ProjectorNext]_vars

\* Most sessions of the client in a listing.
MaxSessions == 3

\* The names torrents have.
NamePool == { "B", "a", "ab" }

\* c.Torrents(): the sessions of the client, each with its name and its
\* own infohash, in the order the engine's map gives them.
SessionLists ==
    { sl \in SeqsUpTo([Name : NamePool, InfoHash : 1..MaxSessions], MaxSessions) :
        \A i, j \in 1..Len(sl) : i # j => sl[i].InfoHash # sl[j].InfoHash }

\* The sort gone wrong: by infohash.
TorrentKeyByHash(ti) == <<ti.InfoHash, ti.Name>>

\* The key MarshalTorrents sorts a torrent by: its name.
TorrentKey(ti) == <<0, ti.Name>>

\* The TorrentInfo of a session.
TorrentInfo(addr, ti) ==
    [Name |-> ti.Name, InfoHash |-> ti.InfoHash, Playlist |-> BuildPlaylist(addr, ti.InfoHash),
     key |-> TorrentKey(ti)]

\* The client holds the sessions sl, every one with its metadata.
Torrents ==
    /\ client = <<>>
    /\ array = <<>>
    /\ client' \in SessionLists
    /\ tie' \in {"stable", "reverse"}
    /\ UNCHANGED <<gatewayVars, processVars, scriptVars>>
    /\ UNCHANGED <<host, cache, asked, meta, proj, array, fetch>>

\* GET /torrents: MarshalTorrents wraps every session, fails when the
\* address cannot be resolved and else sorts the array by name; the handler
\* answers 500 or the array.
MarshalTorrents ==
    /\ host # NoHost
    /\ array = <<>>
    /\ LET call == client # <<>> /\ (To4(cache.ip) = <<>> \/ cache.err # "")
           c == IF call THEN GetLocalIPOn(host) ELSE cache IN
        /\ cache' = c
        /\ asked' = IF call THEN asked + 1 ELSE asked
        /\ array' = IF client # <<>> /\ c.err # ""
                     THEN <<[status |-> 500, items |-> <<>>]>>
                     ELSE <<[status |-> 200,
                             items |-> SortSlice([i \in 1..Len(client) |->
                                                    TorrentInfo(IPString(c.ip), client[i])], Ties)]>>
    /\ UNCHANGED <<gatewayVars, processVars, scriptVars>>
    /\ UNCHANGED <<host, meta, tie, proj, client, fetch>>

\* The listing on every set of sessions.
ListingNext ==
    \/ (\E h \in SampleHosts : HostIs(h)) /\ Quiet
    \/ Torrents /\ Quiet
    \/ MarshalTorrents /\ Quiet

ListingSpec == Init /\ [][ListingNext]_vars

ScriptSpec == ScriptInit /\ [][ScriptNext]_vars

\* ------------------------------------------------------------------ claims

\* C1: a GET /torrents request whose client has cancelled always ends: its
\* handler does not stay in the wait for a session's readiness signal.
C1_ListEndsOnCancel ==
    \A r \in Slots : (req[r].pc = "list_wait" /\ req[r].cancelled) ~> Free(r)

\* C2: a POST /torrents, GET /torrents/{fingerprint} or GET
\* /torrents/{fingerprint}/{path} request whose client has cancelled always
\* ends: the wait for the session's metadata is given up.
C2_WaitEndsOnCancel ==
    \A r \in Slots :
        (req[r].pc \in {"post_wait", "get_wait", "file_wait"} /\ req[r].cancelled) ~> Free(r)

\* A DELETE that has responded with the given status.
Deleted(r, status) ==
    req[r].pc = "done" /\ req[r].op = "delete" /\ req[r].status = status

\* C3: once a DELETE of an active session that carries deleteFiles=true has
\* responded, the cache holds no piece of the torrent and its descriptor
\* file is gone.
C3_DeleteFilesRemovesAll ==
    \A r \in Slots :
        Deleted(r, 204) /\ req[r].q = <<"deleteFiles", "true">>
            => /\ pieces \cap PiecesOf(req[r].t) = {}
               /\ saved[NameOf(req[r].t)] # req[r].t

\* The request asks for no data deletion: the flag is absent or false,
\* under the documented name or the name the handler reads.
NoDataDeletion(q) == q = <<>> \/ q[2] = "false"

\* C4: every step of a DELETE without the data-deletion flag leaves the piece
\* cache and the saved descriptors as they are, and its last step removes
\* the session of the request and no other.
C4_NoFlagKeepsData ==
    [][\A r \in Slots :
          DeleteStep(r) /\ NoDataDeletion(req[r].q)
              => /\ pieces' = pieces
                 /\ saved' = saved
                 /\ DeleteDrop(r)
                 /\ torrents' = [torrents EXCEPT ![req[r].t] = "absent"]]_vars

C4_Witness ==
    \E r \in Slots :
        /\ Deleted(r, 204)
        /\ NoDataDeletion(req[r].q)
        /\ torrents[req[r].t] = "absent"
        /\ PiecesOf(req[r].t) \subseteq pieces
        /\ saved[NameOf(req[r].t)] = req[r].t

\* The sessions a GET /torrents handler has taken from the table.
Listing(rec) == IF rec.pc = "list_wait" THEN {rec.t} \cup rec.todo ELSE rec.out

\* C5: when a DELETE of an active fingerprint has responded, the fingerprint
\* is out of the session table and the other sessions are as they were; the
\* GET /torrents/{fingerprint} that follows answers 404 and the GET /torrents
\* that follows lists every other active session and not the deleted one.
C5_DeletedIsGone ==
    [][\A r \in Slots :
          /\ DeleteDrop(r) =>
                /\ Deleted(r, 204)'
                /\ torrents' = [torrents EXCEPT ![req[r].t] = "absent"]
          /\ Deleted(r, 204) =>
                /\ torrents[req[r].t] = "absent"
                /\ HandleGetInfoHash(r, req[r].t) =>
                        req'[r].pc = "done" /\ req'[r].status = 404
                /\ HandleGetTorrents(r) =>
                        Listing(req'[r]) = Active /\ req[r].t \notin Listing(req'[r])]_vars

C5_Witness ==
    \E r \in Slots :
        /\ Deleted(r, 204)
        /\ torrents[req[r].t] = "absent"
        /\ \E u \in IH : torrents[u] # "absent"

\* C6: a DELETE of an active fingerprint answers 204 and drops the session
\* whatever the store, the transaction and the file removal do; a DELETE of a
\* fingerprint that is no active session answers 404 and changes neither the
\* session table, nor the piece cache, nor the descriptors.
C6_DeleteAlways204 ==
    [][\A r \in Slots :
          /\ \A t \in IH, q \in Queries :
                HandleDeleteInfoHash(r, t, q) =>
                    IF torrents[t] = "absent"
                    THEN /\ Deleted(r, 404)'
                         /\ UNCHANGED <<torrents, pieces, saved>>
                    ELSE req'[r].status = 204 /\ req'[r].pc \in {"del_purge", "del_drop"}
          /\ DeletePurge(r) \/ DeleteRemove(r) =>
                req'[r].status = 204 /\ req'[r].pc \in {"del_remove", "del_drop"}
          /\ DeleteDrop(r) =>
                Deleted(r, 204)' /\ torrents'[req[r].t] = "absent"]_vars

\* A DELETE with the flag the handler reads has responded 204 and dropped the
\* session although both the purge and the file removal failed.
C6_Witness ==
    \E r \in Slots :
        /\ Deleted(r, 204)
        /\ req[r].q = <<"DeleteFiles", "true">>
        /\ torrents[req[r].t] = "absent"
        /\ PiecesOf(req[r].t) \subseteq pieces
        /\ saved[NameOf(req[r].t)] = req[r].t

\* The tests of AddTorrent's switch in their order, and the branch of each.
ShapeTest(k, id) ==
    CASE k = 1 -> MatchHttp(id)
      [] k = 2 -> MatchTorrent(id)
      [] k = 3 -> MatchInfoHash(id)
      [] k = 4 -> MatchMagnet(id)

ShapeBranch == <<"url", "file", "hash", "magnet">>

Matching(id) == { k \in 1..Len(ShapeBranch) : ShapeTest(k, id) }

\* The branch of the earliest test an identifier passes, "none" if it passes
\* no test.
FirstShape(id) ==
    IF Matching(id) = {} THEN "none"
    ELSE ShapeBranch[CHOOSE k \in Matching(id) : \A j \in Matching(id) : k <= j]

Called == lastCall.via # ""

\* C7: AddTorrent takes exactly the branch of the first test the identifier
\* passes in the order URL, .torrent suffix, 40 hex characters, magnet:
\* prefix, also when the identifier passes several tests.
C7_FirstShapeWins == Called => lastCall.via = FirstShape(lastCall.id)

\* An identifier that is a URL and ends in .torrent went the URL way.
C7_Witness ==
    /\ lastCall.id = "http://h/a.torrent"
    /\ Cardinality(Matching(lastCall.id)) > 1
    /\ lastCall.via = "url"

\* C8 as stated: every identifier that begins with magnet: goes to the
\* engine's add-by-magnet.
C8_MagnetAlwaysMagnet ==
    Called /\ MatchMagnet(lastCall.id) => lastCall.via = "magnet"

\* C8 as amended: every identifier that begins with magnet: and does not end
\* in .torrent goes to the engine's add-by-magnet.
C8_MagnetUnlessTorrentSuffix ==
    Called /\ MatchMagnet(lastCall.id) /\ ~MatchTorrent(lastCall.id)
        => lastCall.via = "magnet"

C8_Witness ==
    /\ lastCall.id = MagnetHead \o HexString(1)
    /\ lastCall.via = "magnet"
    /\ lastCall.err = ""
    /\ torrents[1] # "absent"

\* An HTTP(S) URL, as opposed to a string that merely starts with http.
IsHttpUrl(id) == HasPrefix(id, "http://") \/ HasPrefix(id, "https://")

\* The identifier has none of the four shapes.
NoShape(id) ==
    /\ ~IsHttpUrl(id)
    /\ ~HasSuffix(id, ".torrent")
    /\ ~(Len(id) = 40 /\ \A i \in 1..Len(id) : SubSeq(id, i, i) \in HexChars)
    /\ ~HasPrefix(id, "magnet:")

\* A step of a POST /torrents handler: the connection's record changes and
\* is a POST's afterwards.
PostStep(r) == req'[r] # req[r] /\ req'[r].op = "post"

Shapeless == { id \in Identifiers : NoShape(id) }

\* C9: for an identifier of none of the four shapes AddTorrent returns an
\* error, POST /torrents answers 400, and the session table and the saved
\* descriptors stay as they are.
C9_InvalidIdIs400 ==
    \A r \in Slots : \A id \in Shapeless : \A env \in BOOLEAN :
        /\ Dispatch[id][env].err # ""
        /\ ~ENABLED (/\ HandlePostTorrents(r, id, TRUE, env)
                     /\ ~(/\ req'[r].pc = "done"
                          /\ req'[r].status = 400
                          /\ torrents' = torrents
                          /\ saved' = saved))

C9_Witness ==
    \E r \in Slots :
        /\ req[r].pc = "done" /\ req[r].op = "post"
        /\ req[r].status = 400
        /\ req[r].err = "invalid torrent id"

\* C10: with resume on, whatever SaveTorrentFile does, the POST ends with the
\* success status it had when the playlist was written and the session table
\* is untouched; with resume off no step of a POST changes a descriptor.
C10_SaveFailureIsNotFatal ==
    [][\A r \in Slots :
          /\ PostSave(r) =>
                /\ resume
                /\ req[r].status = 200
                /\ req'[r].pc = "done"
                /\ req'[r].status = 200
                /\ torrents' = torrents
          /\ ~resume /\ PostStep(r) => saved' = saved]_vars

\* A POST has answered 200 with resume on, no descriptor was written, and
\* the session is active.
C10_Witness ==
    \E r \in Slots :
        /\ req[r].pc = "done" /\ req[r].op = "post" /\ req[r].status = 200
        /\ resume
        /\ saved[NameOf(req[r].t)] # req[r].t
        /\ torrents[req[r].t] = "resolved"

\* C11: once GET /exit has answered 202 or an interrupt has arrived, the
\* gateway process ends in every case: with requests still in flight the
\* shutdown goes on when the window expires, and when the process has ended
\* no session is left and no handler holds a reader.
C11_ExitTerminates ==
    (gw = "stopping") ~> (gw = "down" /\ Active = {} /\ \A r \in Slots : Free(r))

\* GET /exit has answered 202 and the window has expired while a streaming
\* response is still open: the shutdown has gone on.
C11_Witness ==
    /\ gw = "closing"
    /\ exitCode = "fatal"
    /\ \E r \in Slots : req[r].pc = "done" /\ req[r].op = "exit" /\ req[r].status = 202
    /\ \E r \in Slots : req[r].pc = "file_serve"

\* C12: with resume on, InitClient starts one resume goroutine per entry of
\* the torrents directory, each goroutine adds its entry through the file
\* branch of AddTorrent, and InitClient returns only when all of them are
\* done; the session of every entry that holds a descriptor is then present,
\* whatever the adds of the other entries did.
C12_ResumeJoinsAll ==
    [][/\ InitClient(TRUE) /\ resume => pending' = Entries /\ gw' = "resuming"
       /\ \A e \in pending : ResumeTorrent(e) => lastCall'.via = "file"
       /\ InitServer =>
            /\ pending = {}
            /\ \A e \in files : Descriptor(e) \in IH => Descriptor(e) \in Active']_vars

\* InitClient has returned after the add of one entry failed and the add
\* of another one, which finished last, succeeded.
C12_Witness ==
    /\ gw = "serving"
    /\ pending = {}
    /\ \E e \in files, f \in files :
        /\ Descriptor(e) \notin IH
        /\ Descriptor(f) \in Active
        /\ lastCall.id = ResumePath(f)

\* C13: with resume on, when startup resume is complete every session that
\* was active when the previous process stopped is active again.
C13_ResumeRestoresAll ==
    [][InitServer /\ resume => before \subseteq Active']_vars

\* Whether command c is among the commands of the last call.
Ran(c) == \E i \in 1..Len(mp.cmds) : mp.cmds[i].cmd = c

\* C14: in a sequence of Client:start() calls with no Client:close() in
\* between, at most one call spawns the gateway subprocess: once a call has
\* spawned it, every later call spawns nothing.
C14_SpawnOnce == spawned <= 1

\* C14's case: after a successful spawn a later client-start call ran
\* neither the probe nor the spawn, although the gateway is down.
C14_Witness ==
    /\ spawned = 1
    /\ mp.call = "client-start"
    /\ ~Ran(ProbeCmd) /\ ~Ran(SpawnCmd)
    /\ gw = "down"

\* C15: Client:close() sends the exit request and resets both flags exactly
\* when the gateway is marked running and was launched by the script; in
\* every other state it sends nothing and leaves the flags and the gateway
\* as they are.
C15_StopExactly ==
    [][ClientStop =>
        IF State.client_running /\ State.launched_by_us
        THEN /\ mp'.cmds[1] = Cmd(ExitCmd, TRUE)
             /\ ~State'.client_running /\ ~State'.launched_by_us
             /\ gw = "serving" => gw' = "stopping"
        ELSE /\ \A i \in 1..Len(mp'.cmds) : mp'.cmds[i].cmd # ExitCmd
             /\ State'.client_running = State.client_running
             /\ State'.launched_by_us = State.launched_by_us
             /\ gw' = gw]_vars

\* C15's case: a client-stop call on a gateway that the probe found running
\* sent no exit request, and the gateway still serves.
C15_Witness ==
    /\ mp.call = "client-stop"
    /\ State.client_running /\ ~State.launched_by_us
    /\ ~Ran(ExitCmd)
    /\ gw = "serving"

\* The fingerprints the gateway lists in the state after a step.
Listed == { t \in IH : torrents[t] # "absent" }

\* C16: after a call of the script that polled the gateway successfully,
\* State.torrents holds exactly the fingerprints the gateway listed: an
\* entry of an earlier poll that is no longer listed is gone.
C16_PollReplaces ==
    [][(mp' # mp /\ \E i \in 1..Len(mp'.cmds) : mp'.cmds[i] = Cmd(PollCmd, TRUE))
          => State'.torrents = Listed']_vars

\* C17: after a call in which the poll failed, or the probe failed and
\* nothing was spawned, the gateway is marked stopped, so that the next
\* Client:start() runs the probe again.
C17_FailureStops ==
    [][(/\ mp' # mp
        /\ \E i \in 1..Len(mp'.cmds) :
              mp'.cmds[i] \in {Cmd(PollCmd, FALSE), Cmd(ProbeCmd, FALSE)}
        /\ \A i \in 1..Len(mp'.cmds) : mp'.cmds[i] # Cmd(SpawnCmd, TRUE))
          => /\ ~State'.client_running
             /\ start(State', FALSE, TRUE).cmds # <<>>]_vars

\* C18: an on_load call for a path that matches an identifier pattern and
\* no exclusion pattern, with the gateway marked running (before the call
\* or by the call's Client:start()), submits the path with a POST and
\* replaces the open target when the POST printed a playlist.
C18_HookSubmits ==
    [][(/\ mp' # mp
        /\ mp'.call = "on_load"
        /\ Hook[mp'.arg].torrent /\ ~Hook[mp'.arg].excluded
        /\ State'.client_running)
          => \E i \in 1..Len(mp'.cmds) :
                /\ mp'.cmds[i].cmd = PostCmd(mp'.arg)
                /\ mp'.cmds[i].ok => mp'.open # mp'.arg]_vars

\* Every stream URL matches an exclusion pattern.
Shielded == \A u \in StreamUrls : Excluded(u)

\* C19: every stream URL the gateway emits matches an exclusion pattern of
\* the hook, and an on_load call for a stream URL runs no command and
\* leaves the open target as it is.
C19_StreamUrlsExcluded ==
    /\ Shielded
    /\ mp.call = "on_load" /\ mp.arg \in StreamUrls => mp.cmds = <<>> /\ mp.open = mp.arg

\* C19's case: with a torrent added and the gateway serving, the player
\* opened a stream URL of the playlist and the hook ran nothing.
C19_Witness ==
    /\ mp.call = "on_load"
    /\ mp.arg = BuildUrl(Address("lan"), 1, "v.mkv")
    /\ mp.cmds = <<>>
    /\ State.client_running /\ 1 \in State.torrents
    /\ gw = "serving" /\ torrents[1] = "resolved" /\ localIP = "lan"

\* The DELETE that asks the gateway to erase the data as well.
DeleteFilesCmd(t) == DeleteCmd(t) \o "?DeleteFiles=true"

\* C20: a menu callback of the delete_files action that sends a DELETE
\* sends it with the DeleteFiles flag, one of the delete action sends it
\* without, and both show the menu again.
C20_DeleteFilesFlag ==
    [][(/\ mp' # mp
        /\ mp'.call = "menu-callback"
        /\ \E t \in IH : mp'.cmds[1].cmd \in {DeleteCmd(t), DeleteFilesCmd(t)})
          => /\ mp'.cmds[Len(mp'.cmds)].cmd = MenuCmd
             /\ \E t \in IH : mp'.cmds[1].cmd =
                    IF mp'.arg = "delete_files" THEN DeleteFilesCmd(t) ELSE DeleteCmd(t)]_vars

\* C30: the purge of one DELETE is all or nothing: when the deletion of a
\* piece failed hard, the piece cache after the transaction is the cache
\* before it; when none did, every piece of the torrent is gone, also when
\* some of its pieces were not in the cache.
C30_PurgeAllOrNothing ==
    [][\A r \in Slots :
          req[r].pc = "del_purge" /\ req'[r].pc = "del_remove"
              => IF req'[r].err # "" THEN pieces' = pieces
                 ELSE pieces' = pieces \ PiecesOf(req[r].t)]_vars

\* C30's case: after a purge that failed hard, the cache holds a piece of
\* the torrent, and another piece of it was not in the cache.
C30_Witness ==
    \E r \in Slots :
        /\ req[r].pc = "del_remove"
        /\ req[r].err # ""
        /\ pieces \cap PiecesOf(req[r].t) # {}
        /\ ~(PiecesOf(req[r].t) \subseteq pieces)

\* C27: a file GET for a fingerprint with no session answers 404 at once;
\* for a session it waits, and when the metadata is there it starts to
\* serve exactly when a file of the torrent has the requested path as its
\* display path, and answers 404 when none has.
C27_ExactPath ==
    [][\A r \in Slots :
          /\ (Free(r) /\ req'[r] # req[r] /\ req'[r].op = "file")
                => \E t \in IH :
                      IF torrents[t] = "absent"
                      THEN req'[r] = Done("file", t, <<>>, 404, "Torrent not found")
                      ELSE req'[r].pc = "file_wait" /\ req'[r].t = t
          /\ (req[r].pc = "file_wait" /\ req'[r].pc # "file_wait")
                => IF req[r].path \in DisplayPaths(req[r].t)
                   THEN req'[r].pc = "file_serve" /\ req'[r].status = 200
                        /\ req'[r].path = req[r].path
                   ELSE req'[r] = Done("file", req[r].t, <<>>, 404, "File not found")]_vars

\* C27's case: a file GET for a path that is the beginning of a file's
\* display path, and no file's display path, was answered 404 by a resolved
\* session.
C27_Witness ==
    /\ req[First] = Done("file", 1, <<>>, 404, "File not found")
    /\ torrents[1] = "resolved"

\* A handler's step on connection r that wrapped files and answered 200:
\* the response holds stream URLs built with the address in localIP.
BuiltUrls(r) ==
    /\ req[r].pc \in {"post_wait", "get_wait", "list_wait"}
    /\ req'[r].pc # req[r].pc \/ req'[r].t # req[r].t
    /\ req'[r].status = 200 \/ req'[r].pc = "list_wait"

\* C26: whenever a handler has built stream URLs for a response that is no
\* error, the address it used is an IPv4 address of a non-loopback
\* interface, neither 127.0.0.1 nor unset; also with concurrent requests
\* that share localIP.
C26_AddressIsLan ==
    [][\A r \in Slots : BuiltUrls(r) => localIP' = "lan"]_vars

\* The non-loopback IPv4 addresses in a list of addresses, in its order.
Candidates(addrs) == SelectSeq(addrs, LAMBDA a : ~IsLoopback(a) /\ To4(a) # <<>>)

\* The candidates of a host, in the order of its interfaces.
HostCandidates(h) == Candidates(h.ifaces[1] \o h.ifaces[2])

Has192(c) == \E i \in 1..Len(c) : To4(c[i])[1] = 192

\* GetLocalIP has been called on a host whose system calls work and whose
\* default route goes through one of its interfaces.
Resolved == host # NoHost /\ host.fail = "" /\ host.route \in 1..2 /\ asked > 0

\* C23: when the host's non-loopback IPv4 addresses include one whose
\* first octet is 192, GetLocalIP returns an address whose first octet is
\* 192, in every order of the addresses.
C23_Prefers192 ==
    Resolved /\ Has192(HostCandidates(host))
        => cache.err = "" /\ cache.ip # <<>> /\ cache.ip[1] = 192

\* C24: when the addresses the loop of GetLocalIP goes over hold a
\* non-loopback IPv4 address and none whose first octet is 192,
\* GetLocalIP returns the first of them.
C24_FirstCandidate ==
    Resolved
        => LET c == Candidates(host.ifaces[host.route]) IN
           c # <<>> /\ ~Has192(c) => cache.ip = To4(c[1])

\* C25: when the host has no non-loopback IPv4 address, GetLocalIP
\* returns an error.
C25_NoAddressIsError ==
    Resolved /\ HostCandidates(host) = <<>> => cache.err # ""


\* The video files of the torrent, by path.
VideoPaths == { i \in 1..Len(meta) : HasPrefix(TypeByExtension(Ext(meta[i])), "video") }

\* <<depth, name>> of j is not after that of k.
NotAfter(j, k) == j = k \/ KeyLess(j, k)

\* The playlist p of address addr holds, after its header, exactly one
\* pair per video file of the torrent and nothing else, in ascending
\* (depth, name) order: some order o of the video files, each once, is
\* ascending and p is the header and the pairs of the files in that order.
WellBuilt(p, addr) ==
    LET n == Cardinality(VideoPaths) IN
    \E o \in [1..n -> VideoPaths] :
        /\ \A a, b \in 1..n : a # b => o[a] # o[b]
        /\ \A a, b \in 1..n :
              a < b => NotAfter(<<Depth(meta[o[a]]), Base(meta[o[a]])>>,
                                <<Depth(meta[o[b]]), Base(meta[o[b]])>>)
        /\ p = Join([m \in 1..(2 * n + 1) |->
                        IF m = 1 THEN "#EXTM3U"
                        ELSE IF m % 2 = 0 THEN "#EXTINF:0," \o Base(meta[o[m \div 2]])
                        ELSE BuildUrl(addr, 1, meta[o[m \div 2]])], "\n")

\* C21: the playlist of a projection is the #EXTM3U header followed by
\* exactly one (#EXTINF title line, URL line) pair for each file whose MIME
\* type begins with "video" and no pair for any other file, the pairs in
\* ascending (depth, name) order.
C21_PlaylistOfVideos ==
    \A k \in 1..Len(proj) :
        proj[k].err = "" => WellBuilt(proj[k].playlist, IPString(cache.ip))

\* A playlist was built of a torrent with a file that is no video and a
\* video in a folder listed before a video at the top.
C21_Witness ==
    /\ Len(proj) > 0
    /\ proj[1].err = ""
    /\ meta = <<"s/v.mkv", "n.txt", "b.mp4">>

C28_ListingSorted ==
    \A k \in 1..Len(array) :
        array[k].status = 200 =>
            LET items == array[k].items IN
            /\ Len(items) = Len(client)
            /\ \A i \in 1..Len(client) :
                  \E j \in 1..Len(items) :
                      items[j].InfoHash = client[i].InfoHash /\ items[j].Name = client[i].Name
            /\ \A i, j \in 1..Len(items) : i < j => ~StrLess(items[j].Name, items[i].Name)

\* Three sessions the engine gave out of name order, two of one name, were
\* listed.
C28_Witness ==
    /\ Len(array) = 1
    /\ array[1].status = 200
    /\ Len(client) = 3
    /\ StrLess(client[3].Name, client[1].Name)
    /\ client[1].Name = client[2].Name

\* The bytes a wanted range selects on a file of size bytes, as first and
\* last offset; first > last when it selects none.
Selected(w, size) ==
    CASE w.kind = "span" -> <<w.a, IF w.b < size - 1 THEN w.b ELSE size - 1>>
      [] w.kind = "from" -> <<w.a, size - 1>>
      [] w.kind = "suffix" -> <<IF w.n > size THEN 0 ELSE size - w.n, size - 1>>
      [] OTHER -> <<1, 0>>

\* The response is 206 with the Content-Range and the bytes of sel.
Partial(resp, sel, size) ==
    /\ resp.status = 206
    /\ resp.contentRange
         = "bytes " \o ToString(sel[1]) \o "-" \o ToString(sel[2]) \o "/" \o ToString(size)
    /\ resp.from = sel[1]
    /\ resp.length = sel[2] - sel[1] + 1

\* The response is 200 with the whole file.
Whole(resp, size) == resp.status = 200 /\ resp.from = 0 /\ resp.length = size

\* C29 as stated: GET on a known file answers 206 with a Content-Range
\* that matches the requested bytes when a Range header is supplied, and 200
\* with the file's full length when none is supplied.
C29_RangeAlways206 ==
    fetch.resp # <<>> =>
        IF fetch.range # ""
        THEN fetch.resp[1].status = 206
        ELSE Whole(fetch.resp[1], fetch.size)

\* C29 (amended): GET on a known file answers 206 with a Content-Range
\* that matches the requested bytes when a Range header is supplied that
\* names a single byte range selecting at least one byte of the file, and
\* 200 with the file's full length when none is supplied, the request
\* carrying no conditional header.
C29_RangeServed ==
    fetch.resp # <<>> =>
        LET sel == Selected(fetch.want, fetch.size) IN
        /\ fetch.want.kind \in {"span", "from", "suffix"} /\ sel[1] <= sel[2]
             => Partial(fetch.resp[1], sel, fetch.size)
        /\ fetch.range = "" => Whole(fetch.resp[1], fetch.size)

\* A range that ends past the end of the file was served.
C29_Witness ==
    /\ fetch.resp # <<>>
    /\ fetch.size = 2
    /\ fetch.range = "bytes=1-3"

\* The hook of the call replaced the open target by a playlist.
Ingested == mp.open # mp.arg

\* C31 as stated: when closeClientOnNoTorrentFiles is set and the mapping
\* is empty at the end of a file-open hook that ingested nothing, the hook
\* calls Client:close(); with the flag unset the hook never stops the
\* gateway.
C31_EmptyMappingStops ==
    mp.call = "on_load" =>
        /\ mp.flag /\ State.torrents = {} /\ ~Ingested => mp.stop
        /\ ~mp.flag => ~mp.stop /\ ~Ran(ExitCmd)

\* C31 (amended): when closeClientOnNoTorrentFiles is set and the mapping
\* is empty at the end of a file-open hook that ingested nothing for a path
\* that matches no exclusion pattern, the hook calls Client:close(); with
\* the flag unset the hook never stops the gateway.
C31_EmptyMappingStopsUnlessExcluded ==
    mp.call = "on_load" =>
        /\ mp.flag /\ State.torrents = {} /\ ~Ingested /\ ~Excluded(mp.arg) => mp.stop
        /\ ~mp.flag => ~mp.stop /\ ~Ran(ExitCmd)

\* A hook with the flag set found the mapping empty and sent the exit
\* request to the gateway the script had launched.
C31_Witness ==
    /\ mp.call = "on_load"
    /\ mp.flag
    /\ mp.stop
    /\ Ran(ExitCmd)

\* C38: in every reachable state of the supervisor launched_by_us implies
\* client_running: no sequence of starts, stops, polls and file-open hooks
\* leaves it marked stopped while it still claims to own the gateway.
C38_OwnerIsRunning == State.launched_by_us => State.client_running

\* The supervisor has stopped a gateway it had launched.
C38_Witness ==
    /\ mp.call \in {"client-stop", "on_load"}
    /\ Ran(ExitCmd)
    /\ ~State.launched_by_us

\* C33: after a delete action of the supervisor the menu that is rendered
\* again (after a poll of the gateway) does not list the deleted torrent,
\* whether or not the gateway has served the detached DELETE when it
\* answers the poll.
C33_MenuOmitsDeleted ==
    \A t \in IH :
        mp.call = "menu-callback" /\ mp.cmds # <<>> /\ mp.cmds[1].cmd = DeleteCmd(t)
            => t \notin State.torrents

\* C36: a POST /torrents that answers 400 or 500 leaves the session table
\* as it was before the request.
C36_FailedPostAddsNothing ==
    \A r \in Slots :
        req[r].pc = "done" /\ req[r].op = "post" /\ req[r].status \in {400, 500}
            => Active = prior[r]

\* The active sessions whose descriptor is the saved one of its name.
Kept == { u \in Active : saved[NameOf(u)] = u }

\* C35: DELETE with data deletion for one torrent removes only that
\* torrent's saved descriptor, the descriptor of every other active session
\* (also one of the same display name) still exists afterwards; and saving
\* one torrent's descriptor never overwrites that of another active torrent.
C35_OwnDescriptorOnly ==
    [][\A r \in Slots :
        req[r].pc \in {"del_remove", "post_save"} /\ req'[r].pc # req[r].pc
            => \A u \in Kept \ {req[r].t} : saved'[NameOf(u)] = u]_vars

\* C32: in every interleaving of a POST of a torrent (resume on) and a
\* DELETE with data deletion of the same torrent, once both handlers have
\* returned and the session is absent, no saved descriptor of the torrent
\* exists.
C32_NoDescriptorWithoutSession ==
    \A r, d \in Slots : \A t \in IH :
        /\ resume
        /\ req[r].pc = "done" /\ req[r].op = "post" /\ req[r].t = t /\ req[r].status = 200
        /\ req[d].pc = "done" /\ req[d].op = "delete" /\ req[d].t = t /\ req[d].status = 204
        /\ DeleteFilesRequested(req[d].q)
        /\ torrents[t] = "absent"
        => saved[NameOf(t)] # t

\* C37: a POST or GET that waits for the metadata of a session which a
\* DELETE removes before the metadata is there responds in the end.
C37_DroppedWaiterResponds ==
    \A r \in Slots :
        (req[r].pc \in {"post_wait", "get_wait"} /\ req[r].t \in req[r].lost) ~> Free(r)

\* C34: a fingerprint removed by a DELETE without data deletion is absent
\* from the session table, also after a restart of the gateway with resume,
\* until a new POST adds it.
C34_RemovedStaysAbsent ==
    \A t \in removed : torrents[t] = "absent"

\* C39: when the listener fails to bind or stops serving, the shutdown
\* context is cancelled, the gateway shuts down and the process ends; the
\* gateway never goes on waiting for /exit or a signal with its listener
\* goroutine gone.
C39_ListenerFailureEndsGateway ==
    /\ (listener.at = "returned" /\ listener.err \in {"bind", "serve"}) ~> (gw = "down")
    /\ [](listener.at = "done" => gw # "serving")

C39_Witness ==
    /\ listener = [at |-> "done", err |-> "bind"]
    /\ gw = "down"
    /\ exitCode = "ok"

\* C40: in the run() variants with the serverErr channel the listener
\* goroutine never sends on serverErr after run() has closed it, whatever
\* the order of the signal, the shutdown and the return of ListenAndServe.
C40_NoSendOnClosed ==
    runPc.lis # "panic"
====
